---- MODULE Spec2Model ----
(***************************************************************************)
(* Model of src/src/kernel.cu: the boids flocking simulation with its      *)
(* three stepping strategies (brute force, scattered uniform grid,         *)
(* coherent uniform grid).                                                 *)
(*                                                                         *)
(* Numbers.  The program computes in 32-bit floats.  The model computes in *)
(* fixed point: a float f is the integer nearest to f * Unit, additions    *)
(* and subtractions are exact and every multiplication, division and       *)
(* square root rounds its result to the nearest representable value, as    *)
(* the float operations do.                                                *)
(*                                                                         *)
(* Arrays are functions over 0..N-1 so that slots keep the indices of the  *)
(* source.  A glm::vec3 is a triple <<x, y, z>>.  Every element of a       *)
(* position or velocity buffer carries, next to its value v, two ghost     *)
(* fields that copies carry along: id (the particle the value belongs to,  *)
(* 0 for memory that holds no particle's value) and t (the tick in which   *)
(* the value was computed).                                                *)
(***************************************************************************)
EXTENDS Integers, Sequences, FiniteSets, TLC

\* resolution of the fixed-point numbers: 1.0f is Unit
Unit == 10 * 10
\* largest number of boids (numObjects) explored
MaxN == 2
\* largest number of ticks in one behaviour
MaxTicks == 2
\* largest number of boids in the thread-level specification
MaxThreads == 2

(***************************************************************************)
(* Float arithmetic in fixed point                                         *)
(***************************************************************************)
Abs(a) == IF a < 0 THEN -a ELSE a

\* (int) cast of a quotient: truncation toward zero
TruncDiv(a, b) == IF a >= 0 THEN a \div b ELSE -((-a) \div b)

\* a / b rounded to the nearest integer (b > 0)
RoundDiv(a, b) == IF a >= 0 THEN (2 * a + b) \div (2 * b)
                            ELSE -((2 * (-a) + b) \div (2 * b))

\* float product and quotient of two fixed-point numbers
FMul(a, b) == RoundDiv(a * b, Unit)
FDiv(a, b) == RoundDiv(a * Unit, b)

RECURSIVE FloorSqrt(_, _, _)
FloorSqrt(s, lo, hi) ==
  IF lo >= hi THEN lo
  ELSE LET mid == (lo + hi + 1) \div 2
       IN IF mid * mid <= s THEN FloorSqrt(s, mid, hi)
                            ELSE FloorSqrt(s, lo, mid - 1)

\* sqrtf: the square root rounded to the nearest value
FSqrt(s) == LET r == FloorSqrt(s, 0, 46340)
            IN IF s - r * r > r THEN r + 1 ELSE r

VAdd(a, b) == <<a[1] + b[1], a[2] + b[2], a[3] + b[3]>>
VSub(a, b) == <<a[1] - b[1], a[2] - b[2], a[3] - b[3]>>
VMul(a, k) == <<FMul(a[1], k), FMul(a[2], k), FMul(a[3], k)>>
VDiv(a, n) == <<RoundDiv(a[1], n), RoundDiv(a[2], n), RoundDiv(a[3], n)>>
Dot(a, b)  == a[1] * b[1] + a[2] * b[2] + a[3] * b[3]
Zero3      == <<0, 0, 0>>
\* glm::length
Length(a)  == FSqrt(Dot(a, a))

(***************************************************************************)
(* Configuration (kernel.cu:48-62)                                         *)
(***************************************************************************)
rule1Distance == 20 * Unit
rule2Distance == 4 * Unit
rule3Distance == 10 * Unit
rule1Scale    == Unit \div 100
rule2Scale    == Unit \div 10
rule3Scale    == Unit \div 10
maxSpeed      == 1 * Unit
scene_scale   == 100 * Unit
maxGridCells  == 9

(***************************************************************************)
(* Grid parameters computed by Boids::initSimulation (kernel.cu:182-193)   *)
(***************************************************************************)
Max2(a, b) == IF a > b THEN a ELSE b
gridCellWidth == 2 * Max2(rule1Distance, Max2(rule2Distance, rule3Distance))
halfSideCount == TruncDiv(scene_scale, gridCellWidth) + 1
gridSideCount == 2 * halfSideCount
gridCellCount == gridSideCount * gridSideCount * gridSideCount
halfGridWidth == gridCellWidth * halfSideCount
\* gridMinimum.x -= halfGridWidth, on every axis
initGridMinimum(old) == <<old[1] - halfGridWidth, old[2] - halfGridWidth,
                          old[3] - halfGridWidth>>

VARIABLES
  numObjects,                \* N
  mem,                       \* device memory: buffer handle -> array of vec3
  dev_pos, dev_vel1, dev_vel2, dev_posCopy,      \* buffer handles
  dev_particleArrayIndices, dev_particleGridIndices,
  dev_gridCellStartIndices, dev_gridCellEndIndices,
  gridMinimum,
  pc,                        \* position of the host inside a stepSimulation*
  dt,                        \* argument of the running stepSimulation*
  tick,                      \* number of ticks started
  tpc,                       \* position of every thread of a running kernel
  acc,                       \* ghost: the accesses of the running kernel
  snap,                      \* ghost: positions, velocities and mode at the
                             \* entry of the latest stepSimulation*
  frame,                     \* local variables of the function being stepped
  gridGlobals,               \* the globals gridCellWidth, gridSideCount and
                             \* gridCellCount as initSimulation left them
  rt                         \* CUDA runtime: live allocations, last error,
                             \* diagnostics printed, process exited

vars == <<numObjects, mem, dev_pos, dev_vel1, dev_vel2, dev_posCopy,
          dev_particleArrayIndices, dev_particleGridIndices,
          dev_gridCellStartIndices, dev_gridCellEndIndices,
          gridMinimum, pc, dt, tick, tpc, acc, snap, frame, gridGlobals, rt>>

Slots(N) == 0 .. (N - 1)
Cells    == 0 .. (gridCellCount - 1)
Buffers  == 1 .. 4

(***************************************************************************)
(* The flocking rules                                                      *)
(***************************************************************************)
\* a[i] of an int table; a read outside the table is undefined behaviour
\* and yields the value oob chosen by the caller
ReadInt(a, i, oob) == IF i \in DOMAIN a THEN a[i] ELSE oob

\* the integers lo, lo+1, .., hi-1 as a sequence (for (i = lo; i < hi; ++i))
Range(lo, hi) == IF hi > lo THEN [k \in 1 .. (hi - lo) |-> lo + k - 1] ELSE <<>>

\* the slots visited by the two loops of rule1, rule2, rule3 (brute force)
ScanBrute(N, iSelf) == Range(0, iSelf) \o Range(iSelf + 1, N)

RECURSIVE ScanCells(_, _, _, _, _, _)
\* the slots i visited by
\*   for (k = 0; usedGridIndices[k] != -1; ++k)
\*     for (i = start[gridC]; i < end[gridC]; ++i)
\* usedGridIndices[k] of the source is used[k + 1] here
ScanCells(k, used, gridCellStartIndices, gridCellEndIndices, oobS, oobE) ==
  IF used[k] = -1 THEN <<>>
  ELSE Range(ReadInt(gridCellStartIndices, used[k], oobS),
             ReadInt(gridCellEndIndices, used[k], oobE))
       \o ScanCells(k + 1, used, gridCellStartIndices, gridCellEndIndices,
                    oobS, oobE)

\* the neighbours examined by rule*Scatter: particleArrayIndices[i] of every
\* visited slot, the subject skipped by array index
ScanScatter(iSelf, gridCellStartIndices, gridCellEndIndices, particleArrayIndices, used, oobS, oobE) ==
  LET vis == ScanCells(1, used, gridCellStartIndices, gridCellEndIndices,
                       oobS, oobE)
      nb  == [k \in 1 .. Len(vis) |->
                ReadInt(particleArrayIndices, vis[k], vis[k])]
  IN SelectSeq(nb, LAMBDA n : n # iSelf)

\* the neighbours examined by rule*Coherent: the visited slots themselves,
\* the subject skipped by slot
ScanCoherent(iSelf, gridCellStartIndices, gridCellEndIndices, used, oobS, oobE) ==
  SelectSeq(ScanCells(1, used, gridCellStartIndices, gridCellEndIndices,
                      oobS, oobE),
            LAMBDA n : n # iSelf)

\* arr[i] of a vec3 array; a read outside the array is undefined behaviour
\* and yields oob
ReadVec(arr, i, oob) == IF i \in DOMAIN arr THEN arr[i].v ELSE oob

\* a velocity read outside the velocity array
StrayVel == <<Unit, 0, 0>>

\* the examined neighbours that pass  glm::length(pos[i] - pos[iSelf]) < dist;
\* a position read outside the array is one that passes: a copy of the
\* subject's
Within(scan, iSelf, pos, dist) ==
  SelectSeq(scan,
    LAMBDA i : Length(VSub(ReadVec(pos, i, pos[iSelf].v), pos[iSelf].v)) < dist)

RECURSIVE SumV(_, _, _, _)
\* sum of arr[s[k]].v over k = from .. Len(s)
SumV(s, arr, from, oob) ==
  IF from > Len(s) THEN Zero3
  ELSE VAdd(ReadVec(arr, s[from], oob), SumV(s, arr, from + 1, oob))

\* body shared by rule1, rule1Scatter and rule1Coherent
rule1Of(scan, iSelf, pos, scale) ==
  LET near == Within(scan, iSelf, pos, rule1Distance)
      n    == Len(near)
      sum  == SumV(near, pos, 1, pos[iSelf].v)
  IN IF n = 0 THEN Zero3
     ELSE VMul(VSub(VDiv(sum, n), pos[iSelf].v), scale)

RECURSIVE Repel(_, _, _, _)
\* c after  c -= pos[s[k]] - pos[iSelf]  for k = from .. Len(s), from c = 0
Repel(s, iSelf, pos, from) ==
  IF from > Len(s) THEN Zero3
  ELSE VSub(Repel(s, iSelf, pos, from + 1),
            VSub(ReadVec(pos, s[from], pos[iSelf].v), pos[iSelf].v))

\* body shared by rule2, rule2Scatter and rule2Coherent
rule2Of(scan, iSelf, pos, scale) ==
  VMul(Repel(Within(scan, iSelf, pos, rule2Distance), iSelf, pos, 1), scale)

\* body shared by rule3, rule3Scatter and rule3Coherent
rule3Of(scan, iSelf, pos, vel, scale) ==
  LET near == Within(scan, iSelf, pos, rule3Distance)
      n    == Len(near)
      vsum == SumV(near, vel, 1, StrayVel)
  IN IF n # 0 THEN VMul(vsum, RoundDiv(scale, n)) ELSE vsum

computeVelocityChange(N, iSelf, pos, vel) ==
  LET scan == ScanBrute(N, iSelf)
  IN VAdd(VAdd(rule1Of(scan, iSelf, pos, rule1Scale),
               rule2Of(scan, iSelf, pos, rule2Scale)),
          rule3Of(scan, iSelf, pos, vel, rule3Scale))

computeVelocityChangeScattered(iSelf, gridCellStartIndices, gridCellEndIndices, particleArrayIndices, pos, vel, used, oobS, oobE) ==
  LET scan == ScanScatter(iSelf, gridCellStartIndices, gridCellEndIndices,
                          particleArrayIndices, used, oobS, oobE)
  IN VAdd(VAdd(rule1Of(scan, iSelf, pos, rule1Scale),
               rule2Of(scan, iSelf, pos, rule2Scale)),
          rule3Of(scan, iSelf, pos, vel, rule3Scale))

computeVelocityChangeCoherent(iSelf, gridCellStartIndices, gridCellEndIndices, pos, vel, used, oobS, oobE) ==
  LET scan == ScanCoherent(iSelf, gridCellStartIndices, gridCellEndIndices,
                           used, oobS, oobE)
  IN VAdd(VAdd(rule1Of(scan, iSelf, pos, rule1Scale),
               rule2Of(scan, iSelf, pos, rule2Scale)),
          rule3Of(scan, iSelf, pos, vel, rule3Scale))

(***************************************************************************)
(* Integrator                                                              *)
(***************************************************************************)
\* the clamp with the factor inverted: length / maxSpeed
clampSpeed_Inverted(v) ==
  LET length == Length(v)
  IN IF length > maxSpeed THEN VMul(v, FDiv(length, maxSpeed)) ELSE v

\* length = glm::length(vel2[i]); if (length > maxSpeed) vel2[i] =
\* maxSpeed/length * vel2[i]
clampSpeed(v) ==
  LET length == Length(v)
  IN IF length > maxSpeed THEN VMul(v, FDiv(maxSpeed, length)) ELSE v

\* the velocity kernels store the value of the particle whose old velocity
\* they read, computed in tick now
NewVel(old, v, now) == [v |-> v, id |-> old.id, t |-> now]

kernUpdateVelocityBruteForce(N, pos, vel1, vel2, now) ==
  [boid \in Slots(N) |->
     NewVel(vel1[boid],
            clampSpeed(VAdd(vel1[boid].v,
                            computeVelocityChange(N, boid, pos, vel1))),
            now)]

\* the wrap without its first assignment: only the upper face wraps
wrapAxis_UpperOnly(x) == IF x > scene_scale THEN -scene_scale ELSE x

\* the wrap with its upper test made inclusive: +scene_scale itself wraps
wrapAxis_Inclusive(x) ==
  LET lower == IF x < -scene_scale THEN scene_scale ELSE x
  IN IF lower >= scene_scale THEN -scene_scale ELSE lower

\* the two conditional assignments of one axis of kernUpdatePos
wrapAxis(x) ==
  LET lower == IF x < -scene_scale THEN scene_scale ELSE x
  IN IF lower > scene_scale THEN -scene_scale ELSE lower

kernUpdatePos(N, dtArg, pos, vel, now) ==
  [index \in Slots(N) |->
     LET thisPos == VAdd(pos[index].v, VMul(vel[index].v, dtArg))
     IN [v  |-> <<wrapAxis(thisPos[1]), wrapAxis(thisPos[2]),
                  wrapAxis(thisPos[3])>>,
         id |-> pos[index].id,
         t  |-> now]]

(***************************************************************************)
(* Uniform grid                                                            *)
(***************************************************************************)
gridIndex3Dto1D(x, y, z, gridResolution) ==
  x + y * gridResolution + z * gridResolution * gridResolution

gridInRange(val, gridResolution) ==
  /\ val[1] >= 0 /\ val[1] <= gridResolution
  /\ val[2] >= 0 /\ val[2] <= gridResolution
  /\ val[3] >= 0 /\ val[3] <= gridResolution

\* (location - gridMin) * inverseCellWidth, each axis cast to int; the
\* product with the cached reciprocal 1 / cellWidth is the quotient
boidGrid(location, gridMin, cellWidth) ==
  <<TruncDiv(location[1] - gridMin[1], cellWidth),
    TruncDiv(location[2] - gridMin[2], cellWidth),
    TruncDiv(location[3] - gridMin[3], cellWidth)>>

\* kernComputeIndices without  indices[boid] = boid
kernComputeIndices_NoIndex(N, gridResolution, gridMin, cellWidth, pos) ==
  [indices     |-> [boid \in Slots(N) |-> 0],
   gridIndices |-> [boid \in Slots(N) |->
                      LET gridCoord == boidGrid(pos[boid].v, gridMin, cellWidth)
                      IN gridIndex3Dto1D(gridCoord[1], gridCoord[2],
                                         gridCoord[3], gridResolution)]]

kernComputeIndices(N, gridResolution, gridMin, cellWidth, pos) ==
  [indices     |-> [boid \in Slots(N) |-> boid],
   gridIndices |-> [boid \in Slots(N) |->
                      LET gridCoord == boidGrid(pos[boid].v, gridMin, cellWidth)
                      IN gridIndex3Dto1D(gridCoord[1], gridCoord[2],
                                         gridCoord[3], gridResolution)]]

kernResetIntBuffer(N, intBuffer, value) ==
  [index \in DOMAIN intBuffer |-> IF index < N THEN value ELSE intBuffer[index]]

\* a write outside the table is dropped
WriteInt(a, i, x) == IF i \in DOMAIN a THEN [a EXCEPT ![i] = x] ELSE a

\* the body of thread index of kernIdentifyCellStartEnd applied to the
\* tables tb = [s |-> start table, e |-> end table]
identifyThread(index, N, particleGridIndices, tb) ==
  LET currentGridLoc == particleGridIndices[index]
      priorGridLoc   == particleGridIndices[index - 1]
  IN IF index = 0
       THEN [tb EXCEPT !.s = WriteInt(tb.s, currentGridLoc, index)]
     ELSE IF priorGridLoc = currentGridLoc
       THEN tb
     ELSE LET t1 == [s |-> WriteInt(tb.s, currentGridLoc, index),
                     e |-> WriteInt(tb.e, priorGridLoc, index)]
          IN IF index = N - 1
               THEN [t1 EXCEPT !.e = WriteInt(t1.e, currentGridLoc, N)]
               ELSE t1

RECURSIVE identifyFrom(_, _, _, _)
identifyFrom(index, N, particleGridIndices, tb) ==
  IF index >= N THEN tb
  ELSE identifyFrom(index + 1, N, particleGridIndices,
                    identifyThread(index, N, particleGridIndices, tb))

\* the N threads run in the order of their index
kernIdentifyCellStartEnd(N, particleGridIndices, gridCellStartIndices, gridCellEndIndices) ==
  identifyFrom(0, N, particleGridIndices,
               [s |-> gridCellStartIndices, e |-> gridCellEndIndices])

xoffsets == <<0, 1, 0, 1>>
yoffsets == <<0, 0, 1, 1>>

\* the eight cells cpy probed by the two loops of findGridCells, in order
probes(location, gridMin, cellWidth) ==
  LET half == FMul(cellWidth, Unit \div 2)
      boidOffset == <<half, half, half>>
      hi == boidGrid(VAdd(location, boidOffset), gridMin, cellWidth)
      lo == boidGrid(VSub(location, boidOffset), gridMin, cellWidth)
  IN [i \in 1 .. 8 |->
        IF i <= 4 THEN <<hi[1] - xoffsets[i], hi[2] - yoffsets[i], hi[3]>>
        ELSE <<lo[1] + xoffsets[i - 4], lo[2] + yoffsets[i - 4], lo[3]>>]

\* the probes (1..8, in order) whose cell findGridCells accepts: in range by
\* gridInRange and with a start index other than -1
acceptedProbes(location, gridResolution, gridMin, cellWidth, gridCellStartIndices, oobS) ==
  LET cpy == probes(location, gridMin, cellWidth)
  IN SelectSeq([i \in 1 .. 8 |-> i],
       LAMBDA i : /\ gridInRange(cpy[i], gridResolution)
                  /\ ReadInt(gridCellStartIndices,
                             gridIndex3Dto1D(cpy[i][1], cpy[i][2], cpy[i][3], gridResolution),
                             oobS) # -1)

\* usedGridCells as findGridCells leaves it: the accepted cell ids and the
\* terminator -1 (usedGridCells[k] of the source is element k + 1)
findGridCells(iSelf, gridResolution, gridMin, cellWidth, gridCellStartIndices, pos, oobS) ==
  LET cpy == probes(pos[iSelf].v, gridMin, cellWidth)
      taken == acceptedProbes(pos[iSelf].v, gridResolution, gridMin, cellWidth,
                              gridCellStartIndices, oobS)
  IN [k \in 1 .. Len(taken) |->
        gridIndex3Dto1D(cpy[taken[k]][1], cpy[taken[k]][2], cpy[taken[k]][3],
                        gridResolution)] \o <<-1>>

\* the indices at which findGridCells reads gridCellStartIndices
findGridCellsReads(iSelf, gridResolution, gridMin, cellWidth, pos) ==
  LET cpy == probes(pos[iSelf].v, gridMin, cellWidth)
  IN {gridIndex3Dto1D(cpy[i][1], cpy[i][2], cpy[i][3], gridResolution) :
        i \in {j \in 1 .. 8 : gridInRange(cpy[j], gridResolution)}}

\* vchange of thread index of kernUpdateVelNeighborSearchScattered, whose
\* particle is iSelf = particleArrayIndices[index]
scatteredChange(index, gridResolution, gridMin, cellWidth, gridCellStartIndices, gridCellEndIndices, particleArrayIndices, pos, vel1, oobS, oobE) ==
  LET iSelf == particleArrayIndices[index]
      usedGridCells == findGridCells(iSelf, gridResolution, gridMin, cellWidth,
                                     gridCellStartIndices, pos, oobS)
  IN computeVelocityChangeScattered(iSelf, gridCellStartIndices,
       gridCellEndIndices, particleArrayIndices, pos, vel1, usedGridCells,
       oobS, oobE)

\* slot s of vel2 is written by the threads whose array index is s (the one
\* with the largest index last); a slot no thread names keeps its value
kernUpdateVelNeighborSearchScattered(N, gridResolution, gridMin, cellWidth, gridCellStartIndices, gridCellEndIndices, particleArrayIndices, pos, vel1, vel2, oobS, oobE, now) ==
  [s \in Slots(N) |->
     LET writers == {i \in Slots(N) : particleArrayIndices[i] = s}
     IN IF writers = {} THEN vel2[s]
        ELSE LET last == CHOOSE i \in writers : \A j \in writers : j <= i
                 vchange == scatteredChange(last, gridResolution, gridMin,
                              cellWidth, gridCellStartIndices,
                              gridCellEndIndices, particleArrayIndices,
                              pos, vel1, oobS, oobE)
             IN NewVel(vel1[s], clampSpeed(VAdd(vel1[s].v, vchange)), now)]

\* the gather without the indirection: to[index] = from[index]
kernMakeCoherent_Direct(N, particleArrayIndices, from1) ==
  [index \in Slots(N) |-> from1[index]]

kernMakeCoherent(N, particleArrayIndices, from1) ==
  [index \in Slots(N) |-> from1[particleArrayIndices[index]]]

\* vchange of thread iSelf of kernUpdateVelNeighborSearchCoherent
coherentChange(iSelf, gridResolution, gridMin, cellWidth, gridCellStartIndices, gridCellEndIndices, pos, vel1, oobS, oobE) ==
  LET usedGridCells == findGridCells(iSelf, gridResolution, gridMin, cellWidth,
                                     gridCellStartIndices, pos, oobS)
  IN computeVelocityChangeCoherent(iSelf, gridCellStartIndices,
       gridCellEndIndices, pos, vel1, usedGridCells, oobS, oobE)

kernUpdateVelNeighborSearchCoherent(N, gridResolution, gridMin, cellWidth, gridCellStartIndices, gridCellEndIndices, pos, vel1, oobS, oobE, now) ==
  [iSelf \in Slots(N) |->
     NewVel(vel1[iSelf],
            clampSpeed(VAdd(vel1[iSelf].v,
              coherentChange(iSelf, gridResolution, gridMin, cellWidth,
                             gridCellStartIndices, gridCellEndIndices,
                             pos, vel1, oobS, oobE))),
            now)]

(***************************************************************************)
(* thrust::sort_by_key: any rearrangement of the (key, value) pairs that   *)
(* leaves the keys in non-decreasing order; the order of equal keys is     *)
(* not determined                                                          *)
(***************************************************************************)
Perms(N) == {p \in [Slots(N) -> Slots(N)] :
               \A i, j \in Slots(N) : i # j => p[i] # p[j]}

SortedPerms(N, keys) ==
  {p \in Perms(N) : \A i \in Slots(N) : i > 0 => keys[p[i - 1]] <= keys[p[i]]}

Permute(N, a, p) == [i \in Slots(N) |-> a[p[i]]]

(***************************************************************************)
(* Inputs                                                                  *)
(***************************************************************************)
Vec(x, y, z) == <<x * Unit, y * Unit, z * Unit>>

\* the boids a behaviour starts from: positions inside the domain (two in
\* one cell within every rule distance, one across a cell border, one on
\* the lower face of the domain flying out, one on the upper face) and
\* velocities no longer than maxSpeed
BoidChoices ==
  { [p |-> Vec(1, 1, 1),     v |-> Zero3],
    [p |-> Vec(3, 1, 1),     v |-> <<Unit, 0, 0>>],
    [p |-> Vec(-1, 2, 1),    v |-> <<-(3 * Unit) \div 5, (4 * Unit) \div 5, 0>>],
    [p |-> Vec(-100, 5, 5),  v |-> <<-Unit, 0, 0>>],
    [p |-> Vec(1, 1, 100),   v |-> Zero3] }

\* the time step passed to stepSimulation*: 0.2
DtChoices == {Unit \div 5}

\* what a read past the end of the start table and of the end table yields:
\* no range, the range of slot 0, or a range that lies outside the arrays
OobChoices == {<<-1, -1>>, <<0, 1>>, <<-3, -2>>}

\* memory that holds no particle's value
Stale == [v |-> Zero3, id |-> 0, t |-> 0]

\* no function is being stepped
NoFrame == [fn |-> "none"]

\* the eight device allocations of initSimulation
Allocations ==
  <<"dev_pos", "dev_vel1", "dev_vel2", "dev_particleArrayIndices",
    "dev_particleGridIndices", "dev_gridCellStartIndices",
    "dev_gridCellEndIndices", "dev_posCopy">>

\* the runtime after an initSimulation in which every call succeeded
RtReady ==
  [live |-> {Allocations[k] : k \in 1 .. Len(Allocations)},
   err |-> "cudaSuccess", out |-> <<>>, exited |-> FALSE]

\* the grid globals after the assignments of initSimulation
GridReady ==
  [cellWidth |-> gridCellWidth, sideCount |-> gridSideCount,
   cellCount |-> gridCellCount]

InitWith(N, boids) ==
  /\ numObjects = N
  /\ frame = NoFrame
  /\ gridGlobals = GridReady
  /\ rt = RtReady
  /\ mem = [b \in Buffers |->
              [i \in Slots(N) |->
                 IF b = 1 THEN [v |-> boids[i].p, id |-> i + 1, t |-> 0]
                 ELSE IF b = 2 THEN [v |-> boids[i].v, id |-> i + 1, t |-> 0]
                 ELSE Stale]]
  /\ dev_pos = 1
  /\ dev_vel1 = 2
  /\ dev_vel2 = 3
  /\ dev_posCopy = 4
  /\ dev_particleArrayIndices = [i \in Slots(N) |-> 0]
  /\ dev_particleGridIndices = [i \in Slots(N) |-> 0]
  /\ dev_gridCellStartIndices = [c \in Cells |-> 0]
  /\ dev_gridCellEndIndices = [c \in Cells |-> 0]
  /\ gridMinimum = initGridMinimum(Zero3)
  /\ pc = "idle"
  /\ dt = 0
  /\ tick = 0
  /\ tpc = [i \in Slots(N) |-> "off"]
  /\ acc = {}
  /\ snap = [mode |-> "none",
             pos  |-> [i \in Slots(N) |-> [v |-> boids[i].p, id |-> i + 1, t |-> 0]],
             vel  |-> [i \in Slots(N) |-> [v |-> boids[i].v, id |-> i + 1, t |-> 0]]]

Init ==
  \E n \in 1 .. MaxN : \E boids \in [Slots(n) -> BoidChoices] :
    InitWith(n, boids)

hostVars == <<numObjects, gridMinimum, tpc, acc, frame, gridGlobals, rt>>
handles  == <<dev_pos, dev_vel1, dev_vel2, dev_posCopy>>
indexArrays == <<dev_particleArrayIndices, dev_particleGridIndices>>
tables   == <<dev_gridCellStartIndices, dev_gridCellEndIndices>>

\* entry of a stepSimulation*(dt)
Enter(d, mode) ==
  /\ pc = "idle"
  /\ tick < MaxTicks
  /\ tick' = tick + 1
  /\ dt' = d
  /\ snap' = [mode |-> mode, pos |-> mem[dev_pos], vel |-> mem[dev_vel1]]

(***************************************************************************)
(* Boids::stepSimulationNaive                                              *)
(***************************************************************************)
NaiveVelocity ==
  /\ \E d \in DtChoices : Enter(d, "naive")
  /\ mem' = [mem EXCEPT ![dev_vel2] =
               kernUpdateVelocityBruteForce(numObjects, mem[dev_pos],
                                            mem[dev_vel1], mem[dev_vel2],
                                            tick + 1)]
  /\ pc' = "n_pos"
  /\ UNCHANGED <<hostVars, handles, indexArrays, tables>>

\* stepSimulationNaive without the swap of the velocity buffers
NaivePos_NoSwap ==
  /\ pc = "n_pos"
  /\ mem' = [mem EXCEPT ![dev_pos] =
               kernUpdatePos(numObjects, dt, mem[dev_pos], mem[dev_vel2], tick)]
  /\ pc' = "idle"
  /\ UNCHANGED <<hostVars, handles, indexArrays, tables, dt, tick, snap>>

\* kernUpdatePos(dev_pos, dev_vel2); std::swap(dev_vel1, dev_vel2)
NaivePos ==
  /\ pc = "n_pos"
  /\ mem' = [mem EXCEPT ![dev_pos] =
               kernUpdatePos(numObjects, dt, mem[dev_pos], mem[dev_vel2], tick)]
  /\ dev_vel1' = dev_vel2
  /\ dev_vel2' = dev_vel1
  /\ pc' = "idle"
  /\ UNCHANGED <<hostVars, dev_pos, dev_posCopy, indexArrays, tables, dt, tick, snap>>

(***************************************************************************)
(* Steps shared by the two grid variants                                   *)
(***************************************************************************)
ComputeIndices(mode, next) ==
  /\ \E d \in DtChoices : Enter(d, mode)
  /\ LET r == kernComputeIndices(numObjects, gridSideCount, gridMinimum,
                                 gridCellWidth, mem[dev_pos])
     IN /\ dev_particleArrayIndices' = r.indices
        /\ dev_particleGridIndices' = r.gridIndices
  /\ pc' = next
  /\ UNCHANGED <<hostVars, mem, handles, tables>>

ResetTables(at, next) ==
  /\ pc = at
  /\ dev_gridCellStartIndices' =
       kernResetIntBuffer(gridCellCount, dev_gridCellStartIndices, -1)
  /\ dev_gridCellEndIndices' =
       kernResetIntBuffer(gridCellCount, dev_gridCellEndIndices, -1)
  /\ pc' = next
  /\ UNCHANGED <<hostVars, mem, handles, indexArrays, dt, tick, snap>>

SortByKey(at, next) ==
  /\ pc = at
  /\ \E p \in SortedPerms(numObjects, dev_particleGridIndices) :
       /\ dev_particleGridIndices' =
            Permute(numObjects, dev_particleGridIndices, p)
       /\ dev_particleArrayIndices' =
            Permute(numObjects, dev_particleArrayIndices, p)
  /\ pc' = next
  /\ UNCHANGED <<hostVars, mem, handles, tables, dt, tick, snap>>

IdentifyCellStartEnd(at, next) ==
  /\ pc = at
  /\ LET r == kernIdentifyCellStartEnd(numObjects, dev_particleGridIndices,
                 dev_gridCellStartIndices, dev_gridCellEndIndices)
     IN /\ dev_gridCellStartIndices' = r.s
        /\ dev_gridCellEndIndices' = r.e
  /\ pc' = next
  /\ UNCHANGED <<hostVars, mem, handles, indexArrays, dt, tick, snap>>

(***************************************************************************)
(* Boids::stepSimulationScatteredGrid                                      *)
(***************************************************************************)
ScatComputeIndices == ComputeIndices("scattered", "s_reset")
ScatReset == ResetTables("s_reset", "s_sort")
ScatSort == SortByKey("s_sort", "s_ident")
ScatIdentify == IdentifyCellStartEnd("s_ident", "s_vel")

ScatVelocity ==
  /\ pc = "s_vel"
  /\ \E oob \in OobChoices :
       mem' = [mem EXCEPT ![dev_vel2] =
                kernUpdateVelNeighborSearchScattered(numObjects, gridSideCount,
                  gridMinimum, gridCellWidth, dev_gridCellStartIndices,
                  dev_gridCellEndIndices, dev_particleArrayIndices,
                  mem[dev_pos], mem[dev_vel1], mem[dev_vel2],
                  oob[1], oob[2], tick)]
  /\ pc' = "s_pos"
  /\ UNCHANGED <<hostVars, handles, indexArrays, tables, dt, tick, snap>>

\* kernUpdatePos(dev_pos, dev_vel2); std::swap(dev_vel1, dev_vel2)
ScatPos ==
  /\ pc = "s_pos"
  /\ mem' = [mem EXCEPT ![dev_pos] =
               kernUpdatePos(numObjects, dt, mem[dev_pos], mem[dev_vel2], tick)]
  /\ dev_vel1' = dev_vel2
  /\ dev_vel2' = dev_vel1
  /\ pc' = "idle"
  /\ UNCHANGED <<hostVars, dev_pos, dev_posCopy, indexArrays, tables, dt, tick, snap>>

(***************************************************************************)
(* Boids::stepSimulationCoherentGrid                                       *)
(***************************************************************************)
CohComputeIndices == ComputeIndices("coherent", "c_reset")
CohReset == ResetTables("c_reset", "c_sort")
CohSort == SortByKey("c_sort", "c_gather")

\* kernMakeCoherent(dev_posCopy <- dev_pos, dev_vel2 <- dev_vel1);
\* std::swap(dev_posCopy, dev_pos)
CohMakeCoherent ==
  /\ pc = "c_gather"
  /\ mem' = [mem EXCEPT
        ![dev_posCopy] = kernMakeCoherent(numObjects, dev_particleArrayIndices,
                                          mem[dev_pos]),
        ![dev_vel2]    = kernMakeCoherent(numObjects, dev_particleArrayIndices,
                                          mem[dev_vel1])]
  /\ dev_pos' = dev_posCopy
  /\ dev_posCopy' = dev_pos
  /\ pc' = "c_ident"
  /\ UNCHANGED <<hostVars, dev_vel1, dev_vel2, indexArrays, tables, dt, tick, snap>>

CohIdentify == IdentifyCellStartEnd("c_ident", "c_vel")

\* the kernel reads dev_vel2 and writes dev_vel1
CohVelocity ==
  /\ pc = "c_vel"
  /\ \E oob \in OobChoices :
       mem' = [mem EXCEPT ![dev_vel1] =
                kernUpdateVelNeighborSearchCoherent(numObjects, gridSideCount,
                  gridMinimum, gridCellWidth, dev_gridCellStartIndices,
                  dev_gridCellEndIndices, mem[dev_pos], mem[dev_vel2],
                  oob[1], oob[2], tick)]
  /\ pc' = "c_pos"
  /\ UNCHANGED <<hostVars, handles, indexArrays, tables, dt, tick, snap>>

\* kernUpdatePos(dev_pos, dev_vel1)
CohPos ==
  /\ pc = "c_pos"
  /\ mem' = [mem EXCEPT ![dev_pos] =
               kernUpdatePos(numObjects, dt, mem[dev_pos], mem[dev_vel1], tick)]
  /\ pc' = "idle"
  /\ UNCHANGED <<hostVars, handles, indexArrays, tables, dt, tick, snap>>

Next ==
  \/ NaiveVelocity \/ NaivePos
  \/ ScatComputeIndices \/ ScatReset \/ ScatSort \/ ScatIdentify
  \/ ScatVelocity \/ ScatPos
  \/ CohComputeIndices \/ CohReset \/ CohSort \/ CohMakeCoherent
  \/ CohIdentify \/ CohVelocity \/ CohPos

Spec == Init /\ [][Next]_vars

TypeOK == pc \in {"idle", "n_pos", "s_reset", "s_sort", "s_ident", "s_vel",
                  "s_pos", "c_reset", "c_sort", "c_gather", "c_ident",
                  "c_vel", "c_pos", "n_run", "s_run", "c_run"}

(***************************************************************************)
(* The velocity kernels thread by thread.  Thread t of the running kernel  *)
(* first computes its velocity change from the buffers as they are at that *)
(* moment and stores vel1[i] + vchange in vel2[i], then reads vel2[i] back *)
(* and, when it is longer than maxSpeed, stores it rescaled.  The threads  *)
(* take their steps in any order.                                          *)
(***************************************************************************)
Running == pc \in {"n_run", "s_run", "c_run"}

\* the vel1 and vel2 arguments of the launch (kernel.cu:813, 864-867, 927-930)
KSrc == IF pc = "c_run" THEN dev_vel2 ELSE dev_vel1
KDst_InPlace == KSrc
KDst == IF pc = "c_run" THEN dev_vel1 ELSE dev_vel2

\* the particle slot thread t works on: boid, iSelf
ThreadSlot(t) == IF pc = "s_run" THEN dev_particleArrayIndices[t] ELSE t

\* the slots thread t examines as neighbours
ThreadScan(t, oob) ==
  LET used == findGridCells(ThreadSlot(t), gridSideCount, gridMinimum, gridCellWidth,
                            dev_gridCellStartIndices, mem[dev_pos], oob[1])
  IN IF pc = "n_run" THEN ScanBrute(numObjects, t)
     ELSE IF pc = "s_run"
       THEN ScanScatter(ThreadSlot(t), dev_gridCellStartIndices, dev_gridCellEndIndices,
                        dev_particleArrayIndices, used, oob[1], oob[2])
     ELSE ScanCoherent(t, dev_gridCellStartIndices, dev_gridCellEndIndices,
                       used, oob[1], oob[2])

\* vchange of thread t
ThreadChange(t, oob) ==
  IF pc = "n_run"
    THEN computeVelocityChange(numObjects, t, mem[dev_pos], mem[KSrc])
  ELSE IF pc = "s_run"
    THEN scatteredChange(t, gridSideCount, gridMinimum, gridCellWidth,
           dev_gridCellStartIndices, dev_gridCellEndIndices,
           dev_particleArrayIndices, mem[dev_pos], mem[KSrc], oob[1], oob[2])
  ELSE coherentChange(t, gridSideCount, gridMinimum, gridCellWidth,
         dev_gridCellStartIndices, dev_gridCellEndIndices, mem[dev_pos],
         mem[KSrc], oob[1], oob[2])

Access(t, op, buf, slot) == [th |-> t, op |-> op, buf |-> buf, slot |-> slot]

\* the elements of the position and velocity buffers thread t reads for its
\* velocity change: pos[iSelf], pos[i] of every examined neighbour, vel[i]
\* of the neighbours within rule3Distance, vel1[iSelf]
ThreadReads(t, oob) ==
  LET self == ThreadSlot(t)
      scan == ThreadScan(t, oob)
      near == Within(scan, self, mem[dev_pos], rule3Distance)
  IN {Access(t, "r", dev_pos, i) : i \in {self} \cup {scan[k] : k \in 1 .. Len(scan)}}
     \cup {Access(t, "r", KSrc, i) : i \in {self} \cup {near[k] : k \in 1 .. Len(near)}}

Launch(at, run) ==
  /\ pc = at
  /\ pc' = run
  /\ tpc' = [t \in Slots(numObjects) |-> "ready"]
  /\ acc' = {}

NaiveLaunch ==
  /\ \E d \in DtChoices : Enter(d, "naive")
  /\ Launch("idle", "n_run")
  /\ UNCHANGED <<numObjects, gridMinimum, frame, gridGlobals, rt, mem, handles, indexArrays, tables>>

ScatLaunch ==
  /\ Launch("s_vel", "s_run")
  /\ UNCHANGED <<numObjects, gridMinimum, frame, gridGlobals, rt, mem, handles, indexArrays, tables, dt, tick, snap>>

CohLaunch ==
  /\ Launch("c_vel", "c_run")
  /\ UNCHANGED <<numObjects, gridMinimum, frame, gridGlobals, rt, mem, handles, indexArrays, tables, dt, tick, snap>>

\* vel2[i] = vel1[i] + vchange
ThreadStore(t) ==
  /\ Running
  /\ tpc[t] = "ready"
  /\ \E oob \in OobChoices :
       LET i == ThreadSlot(t)
       IN /\ mem' = [mem EXCEPT ![KDst][i] =
                       NewVel(mem[KSrc][i], VAdd(mem[KSrc][i].v, ThreadChange(t, oob)), tick)]
          /\ acc' = acc \cup ThreadReads(t, oob) \cup {Access(t, "w", KDst, i)}
  /\ tpc' = [tpc EXCEPT ![t] = "stored"]
  /\ UNCHANGED <<numObjects, gridMinimum, frame, gridGlobals, rt, handles, indexArrays, tables, pc, dt, tick, snap>>

\* length = glm::length(vel2[i]); if (length > maxSpeed) vel2[i] = ...
ThreadClamp(t) ==
  /\ Running
  /\ tpc[t] = "stored"
  /\ LET i == ThreadSlot(t)
         length == Length(mem[KDst][i].v)
     IN IF length > maxSpeed
          THEN /\ mem' = [mem EXCEPT ![KDst][i].v = clampSpeed(mem[KDst][i].v)]
               /\ acc' = acc \cup {Access(t, "r", KDst, i), Access(t, "w", KDst, i)}
          ELSE /\ mem' = mem
               /\ acc' = acc \cup {Access(t, "r", KDst, i)}
  /\ tpc' = [tpc EXCEPT ![t] = "done"]
  /\ UNCHANGED <<numObjects, gridMinimum, frame, gridGlobals, rt, handles, indexArrays, tables, pc, dt, tick, snap>>

\* the host goes on once every thread of the kernel is done
Join ==
  /\ Running
  /\ \A t \in Slots(numObjects) : tpc[t] = "done"
  /\ pc' = IF pc = "n_run" THEN "n_pos" ELSE IF pc = "s_run" THEN "s_pos" ELSE "c_pos"
  /\ tpc' = [t \in Slots(numObjects) |-> "off"]
  /\ UNCHANGED <<numObjects, gridMinimum, frame, gridGlobals, rt, acc, mem, handles, indexArrays, tables, dt, tick, snap>>

\* the boids the thread-level behaviours start from
ThreadBoidChoices ==
  { b \in BoidChoices : b.p \in {Vec(1, 1, 1), Vec(3, 1, 1), Vec(-1, 2, 1)} }

InitThreads ==
  \E n \in 1 .. MaxThreads : \E boids \in [Slots(n) -> ThreadBoidChoices] :
    InitWith(n, boids)

NextThreads ==
  \/ NaiveLaunch \/ NaivePos
  \/ ScatComputeIndices \/ ScatReset \/ ScatSort \/ ScatIdentify
  \/ ScatLaunch \/ ScatPos
  \/ CohComputeIndices \/ CohReset \/ CohSort \/ CohMakeCoherent
  \/ CohIdentify \/ CohLaunch \/ CohPos
  \/ \E t \in Slots(numObjects) : ThreadStore(t) \/ ThreadClamp(t)
  \/ Join

SpecThreads == InitThreads /\ [][NextThreads]_vars

(***************************************************************************)
(* Properties                                                              *)
(***************************************************************************)
N == numObjects
Pos == mem[dev_pos]
Vel == mem[dev_vel1]
AtTickEnd == pc = "idle" /\ tick >= 1
AfterIdentify == pc \in {"s_vel", "c_vel"}
AfterSort == pc \in {"s_ident", "c_gather"}
GridPcs == {"s_reset", "s_sort", "s_ident", "s_vel", "s_pos",
            "c_reset", "c_sort", "c_gather", "c_ident", "c_vel", "c_pos"}
RuleDistances == {rule1Distance, rule2Distance, rule3Distance}

\* the slot of array arr that holds the value of particle id
SlotOf(arr, id) == CHOOSE i \in DOMAIN arr : arr[i].id = id

InDomain(v) == \A a \in 1 .. 3 : -scene_scale <= v[a] /\ v[a] <= scene_scale

\* the cell id of a position
CellOf(v) ==
  LET c == boidGrid(v, gridMinimum, gridCellWidth)
  IN gridIndex3Dto1D(c[1], c[2], c[3], gridSideCount)

Elems(q) == {q[k] : k \in 1 .. Len(q)}

\* the velocities and positions one brute-force tick gives from the state
\* the latest tick started from
RefVel == kernUpdateVelocityBruteForce(N, snap.pos, snap.vel, snap.vel, tick)
RefPos == kernUpdatePos(N, dt, snap.pos, RefVel, tick)

\* every particle ends the tick with the velocity and position the
\* brute-force tick gives it
C1_SameResult ==
  AtTickEnd =>
    \A i \in Slots(N) :
      LET k == SlotOf(snap.pos, Pos[i].id)
      IN Pos[i].v = RefPos[k].v /\ Vel[i].v = RefVel[k].v

\* for every particle and every rule distance the grid scan examines, once
\* each, exactly the particles within that distance that the brute-force
\* scan examines
C1_SameNeighbours ==
  /\ pc = "s_vel" =>
       \A i \in Slots(N) : \A d \in RuleDistances : \A oob \in OobChoices :
         LET used == findGridCells(i, gridSideCount, gridMinimum, gridCellWidth,
                                   dev_gridCellStartIndices, Pos, oob[1])
             grid == Within(ScanScatter(i, dev_gridCellStartIndices,
                              dev_gridCellEndIndices, dev_particleArrayIndices,
                              used, oob[1], oob[2]), i, Pos, d)
             all  == Within(ScanBrute(N, i), i, Pos, d)
         IN Elems(grid) = Elems(all) /\ Len(grid) = Len(all)
  /\ pc = "c_vel" =>
       \A i \in Slots(N) : \A d \in RuleDistances : \A oob \in OobChoices :
         LET used == findGridCells(i, gridSideCount, gridMinimum, gridCellWidth,
                                   dev_gridCellStartIndices, Pos, oob[1])
             grid == Within(ScanCoherent(i, dev_gridCellStartIndices,
                              dev_gridCellEndIndices, used, oob[1], oob[2]),
                            i, Pos, d)
             all  == Within(ScanBrute(N, i), i, Pos, d)
         IN Elems(grid) = Elems(all) /\ Len(grid) = Len(all)

\* C1: one tick of each of the three modes from the same state gives every
\* particle the same new velocity and position, the grid variants taking
\* into account exactly the particles the brute-force scan takes into account
C1_Equivalence == C1_SameResult /\ C1_SameNeighbours

Occupied(c) == \E i \in Slots(N) : dev_particleGridIndices[i] = c

\* C2: after kernIdentifyCellStartEnd every occupied cell has
\* 0 <= start < end <= N and every other cell has start = end = -1
C2_RangeTableValid ==
  AfterIdentify =>
    \A c \in Cells :
      IF Occupied(c)
        THEN /\ 0 <= dev_gridCellStartIndices[c]
             /\ dev_gridCellStartIndices[c] < dev_gridCellEndIndices[c]
             /\ dev_gridCellEndIndices[c] <= N
        ELSE dev_gridCellStartIndices[c] = -1 /\ dev_gridCellEndIndices[c] = -1

\* C3: after kernIdentifyCellStartEnd every sorted slot lies in the range
\* [start, end) of exactly one cell, the cell whose id the slot stores
C3_RangesPartition ==
  AfterIdentify =>
    \A i \in Slots(N) :
      {c \in Cells : dev_gridCellStartIndices[c] <= i /\ i < dev_gridCellEndIndices[c]}
        = {dev_particleGridIndices[i]}

\* C4: for a particle inside the domain findGridCells reads the start table
\* only inside [0, cellCount) and every cell it accepts has its three
\* coordinates in 0..sideCount-1 and a start index other than -1
C4_ProbesInGrid ==
  AfterIdentify =>
    \A i \in Slots(N) :
      InDomain(Pos[i].v) =>
        /\ findGridCellsReads(i, gridSideCount, gridMinimum, gridCellWidth, Pos)
             \subseteq Cells
        /\ \A oob \in OobChoices :
             LET cpy   == probes(Pos[i].v, gridMinimum, gridCellWidth)
                 taken == acceptedProbes(Pos[i].v, gridSideCount, gridMinimum,
                            gridCellWidth, dev_gridCellStartIndices, oob[1])
             IN \A k \in 1 .. Len(taken) :
                  LET c == cpy[taken[k]]
                      g == gridIndex3Dto1D(c[1], c[2], c[3], gridSideCount)
                  IN /\ \A a \in 1 .. 3 : c[a] \in 0 .. (gridSideCount - 1)
                     /\ g \in Cells
                     /\ dev_gridCellStartIndices[g] # -1

\* C5: every position stays inside the domain, so that every particle has
\* cell coordinates in 0..sideCount-1 and kernComputeIndices gives it a cell
\* id in [0, cellCount)
C5_PositionsInDomain ==
  \A i \in Slots(N) :
    /\ InDomain(Pos[i].v)
    /\ \A a \in 1 .. 3 :
         boidGrid(Pos[i].v, gridMinimum, gridCellWidth)[a] \in 0 .. (gridSideCount - 1)
    /\ pc \in GridPcs => dev_particleGridIndices[i] \in Cells

\* a particle that left through the lower x face in an earlier tick and was
\* wrapped to +scene_scale has been given its cell by kernComputeIndices
C5_Witness ==
  /\ pc = "s_reset"
  /\ tick >= 2
  /\ maxSpeed * dt < 2 * scene_scale * Unit
  /\ \E i \in Slots(N) : Pos[i].v[1] = scene_scale

\* C6: when a tick returns, slot i of dev_pos and slot i of dev_vel1 hold
\* the position and the velocity of this tick of the same particle, and the
\* particles held are the initial ones, each once
C6_ConsistentState ==
  pc = "idle" =>
    /\ \A i \in Slots(N) : Pos[i].id = Vel[i].id
    /\ {Pos[i].id : i \in Slots(N)} = 1 .. N
    /\ tick >= 1 => \A i \in Slots(N) : Pos[i].t = tick /\ Vel[i].t = tick

\* a second tick has returned after the particles were reordered
C6_Witness ==
  /\ pc = "idle"
  /\ tick >= 2
  /\ N >= 2
  /\ Pos[0].id # 1
  /\ snap.mode # "coherent"

\* C8: after kernComputeIndices and the sort the array indices are a
\* permutation of 0..N-1, the cell ids are non-decreasing and each slot's
\* cell id is the cell of the particle its array index names
C8_SortedPairs ==
  AfterSort =>
    /\ {dev_particleArrayIndices[i] : i \in Slots(N)} = Slots(N)
    /\ \A i \in Slots(N) :
         i > 0 => dev_particleGridIndices[i - 1] <= dev_particleGridIndices[i]
    /\ \A i \in Slots(N) :
         /\ dev_particleArrayIndices[i] \in Slots(N)
         /\ dev_particleGridIndices[i] = CellOf(Pos[dev_particleArrayIndices[i]].v)

\* the sort has moved a pair
C8_Witness ==
  /\ AfterSort
  /\ N >= 2
  /\ dev_particleArrayIndices[0] # 0

\* C9: the coherence pass sets newPos[i] = oldPos[arrayIndex[i]] and
\* newVel[i] = oldVel[arrayIndex[i]], writes only the spare position buffer
\* and the spare velocity buffer, leaves the buffers it reads unchanged, and
\* the reordered arrays hold each particle's pair exactly once
C9_Gather ==
  [][pc = "c_gather" =>
       /\ \A i \in Slots(N) :
            /\ mem'[dev_posCopy][i] = mem[dev_pos][dev_particleArrayIndices[i]]
            /\ mem'[dev_vel2][i] = mem[dev_vel1][dev_particleArrayIndices[i]]
            /\ mem'[dev_posCopy][i].id = mem'[dev_vel2][i].id
       /\ \A b \in Buffers \ {dev_posCopy, dev_vel2} : mem'[b] = mem[b]
       /\ {dev_posCopy, dev_vel2} \cap {dev_pos, dev_vel1} = {}
       /\ \A id \in 1 .. N :
            Cardinality({i \in Slots(N) : mem'[dev_posCopy][i].id = id}) = 1
     ]_vars

\* the coherence pass has run and has moved a particle to another slot
C9_Witness ==
  /\ pc = "c_ident"
  /\ N >= 2
  /\ dev_particleArrayIndices[0] # 0
  /\ Pos[0] = mem[dev_posCopy][dev_particleArrayIndices[0]]

\* the rounding error the rescale by maxSpeed / length can add to a length
ClampSlack == (3 * Unit) \div 100

\* C10 as stated: after every tick every stored velocity is no longer than
\* maxSpeed
C10_SpeedAtMostMax ==
  AtTickEnd => \A i \in Slots(N) : Dot(Vel[i].v, Vel[i].v) <= maxSpeed * maxSpeed

AfterVelocity == pc \in {"n_pos", "s_pos", "c_pos"}

\* the velocity the kernel that has just run stored in slot s
Stored(s) == IF pc = "c_pos" THEN mem[dev_vel1][s].v ELSE mem[dev_vel2][s].v

\* the velocity of slot s before the clamp, as the kernel that has just run
\* computed it (its inputs are unchanged since)
PreClamp(s, oob) ==
  IF pc = "n_pos"
    THEN VAdd(mem[dev_vel1][s].v, computeVelocityChange(N, s, Pos, mem[dev_vel1]))
  ELSE IF pc = "s_pos"
    THEN VAdd(mem[dev_vel1][s].v,
              scatteredChange(CHOOSE t \in Slots(N) : dev_particleArrayIndices[t] = s,
                gridSideCount, gridMinimum, gridCellWidth, dev_gridCellStartIndices,
                dev_gridCellEndIndices, dev_particleArrayIndices, Pos,
                mem[dev_vel1], oob[1], oob[2]))
  ELSE VAdd(mem[dev_vel2][s].v,
            coherentChange(s, gridSideCount, gridMinimum, gridCellWidth,
              dev_gridCellStartIndices, dev_gridCellEndIndices, Pos,
              mem[dev_vel2], oob[1], oob[2]))

\* w is u if u is no longer than maxSpeed, and else u * maxSpeed / |u| up to
\* the rounding error on every axis
ClampOf(u, w) ==
  IF Length(u) <= maxSpeed THEN w = u
  ELSE \A a \in 1 .. 3 :
         Abs(w[a] * Length(u) - u[a] * maxSpeed) <= ClampSlack * Length(u)

\* C10 as amended: in each of the three modes every stored velocity is no
\* longer than maxSpeed plus the rounding error of the rescale; a new
\* velocity longer than maxSpeed is stored rescaled by maxSpeed / length, a
\* shorter one unchanged
C10_SpeedClamped ==
  /\ AtTickEnd =>
       \A i \in Slots(N) :
         Dot(Vel[i].v, Vel[i].v) <= (maxSpeed + ClampSlack) * (maxSpeed + ClampSlack)
  /\ AfterVelocity =>
       \A s \in Slots(N) :
         /\ Dot(Stored(s), Stored(s)) <= (maxSpeed + ClampSlack) * (maxSpeed + ClampSlack)
         /\ \E oob \in OobChoices : ClampOf(PreClamp(s, oob), Stored(s))

\* a grid kernel has stored a velocity that was longer than maxSpeed before
\* the clamp next to one that was not
C10_Witness ==
  /\ pc = "s_pos"
  /\ \E s \in Slots(N) : \A oob \in OobChoices : Length(PreClamp(s, oob)) > maxSpeed
  /\ \E s \in Slots(N) : \A oob \in OobChoices : Length(PreClamp(s, oob)) <= maxSpeed

\* the accesses of the running kernel to the position and velocity buffers
Reads  == {a \in acc : a.op = "r"}
Writes == {a \in acc : a.op = "w"}
OwnSlot(a) == a.buf = KDst /\ a.slot = ThreadSlot(a.th)

\* every write of a thread goes to its own slot of the destination buffer,
\* the destination is neither the scanned velocity buffer nor the position
\* buffer, no slot is written by two threads
C7_WriteDiscipline ==
  Running =>
    /\ \A a \in Writes : OwnSlot(a)
    /\ KDst # KSrc /\ KDst # dev_pos
    /\ \A a, b \in Writes : a.slot = b.slot => a.th = b.th
    /\ \A t, u \in Slots(N) : t # u => ThreadSlot(t) # ThreadSlot(u)

\* whatever the interleaving, a thread that is done has left in its slot
\* the clamped sum of the source velocity and the change computed from the
\* source buffers alone
C7_NoInterference ==
  Running =>
    \A t \in Slots(N) :
      tpc[t] = "done" =>
        \E oob \in OobChoices :
          mem[KDst][ThreadSlot(t)].v =
            clampSpeed(VAdd(mem[KSrc][ThreadSlot(t)].v, ThreadChange(t, oob)))

Advanced(s, a) == VAdd(Pos[s].v, VMul(Stored(s), dt))[a]

\* C11 as stated: on each axis an advanced coordinate exactly equal to
\* +scene_scale is mapped to -scene_scale by the wrap of kernUpdatePos, and
\* one inside the bounds is left unchanged
C11_UpperBoundWraps ==
  [][AfterVelocity =>
       \A s \in Slots(N) : \A a \in 1 .. 3 :
         /\ Advanced(s, a) = scene_scale => mem'[dev_pos'][s].v[a] = -scene_scale
         /\ (-scene_scale <= Advanced(s, a) /\ Advanced(s, a) < scene_scale)
              => mem'[dev_pos'][s].v[a] = Advanced(s, a)
     ]_vars

\* C11 as amended: on each axis an advanced coordinate exactly equal to
\* +scene_scale, like every one within the bounds, is left unchanged; only
\* one above +scene_scale is mapped to -scene_scale and one below
\* -scene_scale to +scene_scale
C11_WrapOutsideOnly ==
  [][AfterVelocity =>
       \A s \in Slots(N) : \A a \in 1 .. 3 :
         mem'[dev_pos'][s].v[a] =
           IF Advanced(s, a) < -scene_scale THEN scene_scale
           ELSE IF Advanced(s, a) > scene_scale THEN -scene_scale
           ELSE Advanced(s, a)
     ]_vars

\* a tick has advanced a particle to exactly +scene_scale on the z axis (it
\* started there and ended the tick at rest) and has returned, while another
\* particle left through the lower x face
C11_Witness ==
  /\ AtTickEnd
  /\ \E s \in Slots(N) :
       /\ Pos[s].v[3] = scene_scale
       /\ Vel[s].v[3] = 0
       /\ snap.pos[SlotOf(snap.pos, Pos[s].id)].v[3] = scene_scale
  /\ \E s \in Slots(N) :
       /\ Pos[s].v[1] = scene_scale
       /\ snap.pos[SlotOf(snap.pos, Pos[s].id)].v[1] < 0

(***************************************************************************)
(* findGridCells statement by statement, for one thread of a grid velocity *)
(* kernel, followed by the loop over the candidate list that every         *)
(* rule*Scatter and rule*Coherent starts with.  frame holds the locals:    *)
(* at, the loop counter i, currLoc, the array usedGridCells of the thread  *)
(* (index 0 .. maxGridCells - 1), the consumer's k, and as ghosts the      *)
(* indices written (writes) and the cell ids the consumer visited (seen).  *)
(***************************************************************************)
\* subject positions: inside a cell, on the lower corner of the domain, on
\* its upper corner, on its upper z face
FindPositions ==
  {Vec(1, 1, 1), Vec(-100, -100, -100), Vec(100, 100, 100), Vec(1, 1, 100)}

\* what the slots of the local array usedGridCells hold before they are
\* written (the array is not initialised)
GarbageChoices == {-1, 5}

\* what a read of the start table outside the table yields
OobStartChoices == {oob[1] : oob \in OobChoices}

\* the cell ids inside the table among those findGridCells computes for location
ProbedCells(location) ==
  LET cpy == probes(location, gridMinimum, gridCellWidth)
  IN {gridIndex3Dto1D(cpy[i][1], cpy[i][2], cpy[i][3], gridSideCount) :
        i \in 1 .. 8} \cap Cells

\* the state in which thread 0 of a grid velocity kernel calls findGridCells:
\* the particle at any of FindPositions, any set of the cells it probes
\* occupied in the start table (by particles the model leaves out)
InitFind ==
  \E p \in FindPositions : \E g \in GarbageChoices : \E o \in OobStartChoices :
    /\ gridMinimum = initGridMinimum(Zero3)
    /\ \E occ \in SUBSET ProbedCells(p) :
         /\ dev_gridCellStartIndices = [c \in Cells |-> IF c \in occ THEN 0 ELSE -1]
         /\ dev_gridCellEndIndices = [c \in Cells |-> IF c \in occ THEN 1 ELSE -1]
    /\ numObjects = 1
    /\ mem = [b \in Buffers |->
                [i \in Slots(1) |->
                   IF b = 1 THEN [v |-> p, id |-> 1, t |-> 0] ELSE Stale]]
    /\ dev_pos = 1 /\ dev_vel1 = 2 /\ dev_vel2 = 3 /\ dev_posCopy = 4
    /\ dev_particleArrayIndices = [i \in Slots(1) |-> 0]
    /\ dev_particleGridIndices = [i \in Slots(1) |-> 0]
    /\ pc = "s_vel"
    /\ dt = 0
    /\ tick = 1
    /\ tpc = [i \in Slots(1) |-> "off"]
    /\ acc = {}
    /\ snap = [mode |-> "scattered", pos |-> mem[1], vel |-> mem[2]]
    /\ rt = RtReady
    /\ gridGlobals = GridReady
    /\ frame = [fn |-> "findGridCells", at |-> "loop1", iSelf |-> 0, i |-> 0,
                currLoc |-> 0, oobS |-> o,
                usedGridCells |-> [k \in 0 .. (maxGridCells - 1) |-> g],
                writes |-> <<>>, k |-> 0, seen |-> <<>>]

\* usedGridCells[at] = x; a write outside the array leaves the array alone
\* and is recorded like every write
StoreUsed(f, at, x) ==
  [f EXCEPT !.usedGridCells = IF at \in DOMAIN f.usedGridCells
                                THEN [f.usedGridCells EXCEPT ![at] = x]
                                ELSE f.usedGridCells,
            !.writes = Append(f.writes, at)]

\* one iteration of the loop of probes first .. first + 3: the cell is
\* appended when it passes gridInRange and its start index is not -1
FindIteration(loop, first) ==
  /\ frame.fn = "findGridCells"
  /\ frame.at = loop
  /\ frame.i < 4
  /\ LET cpy == probes(mem[dev_pos][frame.iSelf].v, gridMinimum, gridCellWidth)[first + frame.i]
         gridCell == gridIndex3Dto1D(cpy[1], cpy[2], cpy[3], gridSideCount)
         taken == /\ gridInRange(cpy, gridSideCount)
                  /\ ReadInt(dev_gridCellStartIndices, gridCell, frame.oobS) # -1
         f1 == IF taken
                 THEN [StoreUsed(frame, frame.currLoc, gridCell)
                         EXCEPT !.currLoc = frame.currLoc + 1]
                 ELSE frame
     IN frame' = [f1 EXCEPT !.i = frame.i + 1]
  /\ UNCHANGED <<numObjects, mem, handles, indexArrays, tables, gridMinimum,
                 pc, dt, tick, tpc, acc, snap, gridGlobals, rt>>

\* the first loop, over the cells below extremeBoid = pos + boidOffset
FindLoop1 == FindIteration("loop1", 1)

\* the first loop is over: extremeBoid = pos - boidOffset
FindNextLoop ==
  /\ frame.fn = "findGridCells"
  /\ frame.at = "loop1"
  /\ frame.i = 4
  /\ frame' = [frame EXCEPT !.at = "loop2", !.i = 0]
  /\ UNCHANGED <<numObjects, mem, handles, indexArrays, tables, gridMinimum,
                 pc, dt, tick, tpc, acc, snap, gridGlobals, rt>>

\* the second loop, over the cells above extremeBoid
FindLoop2 == FindIteration("loop2", 5)

\* the slot the terminator goes to, one slot further than it should
terminatorSlot_OnePast(currLoc) == currLoc + 1

\* usedGridCells[currLoc] = -1
terminatorSlot(currLoc) == currLoc

FindTerminate ==
  /\ frame.fn = "findGridCells"
  /\ frame.at = "loop2"
  /\ frame.i = 4
  /\ frame' = [StoreUsed(frame, terminatorSlot(frame.currLoc), -1)
                 EXCEPT !.at = "scan"]
  /\ UNCHANGED <<numObjects, mem, handles, indexArrays, tables, gridMinimum,
                 pc, dt, tick, tpc, acc, snap, gridGlobals, rt>>

\* for (k = 0; usedGridIndices[k] != -1; ++k): one test of the condition and,
\* when it holds, one pass; a read outside the array yields either garbage
ConsumeStep ==
  /\ frame.fn = "findGridCells"
  /\ frame.at = "scan"
  /\ \E g \in GarbageChoices :
       LET gridC == IF frame.k \in DOMAIN frame.usedGridCells
                      THEN frame.usedGridCells[frame.k] ELSE g
       IN frame' = IF gridC # -1
                     THEN [frame EXCEPT !.k = frame.k + 1,
                                        !.seen = Append(frame.seen, gridC)]
                     ELSE [frame EXCEPT !.at = "done"]
  /\ frame.k <= maxGridCells
  /\ UNCHANGED <<numObjects, mem, handles, indexArrays, tables, gridMinimum,
                 pc, dt, tick, tpc, acc, snap, gridGlobals, rt>>

NextFind == FindLoop1 \/ FindNextLoop \/ FindLoop2 \/ FindTerminate \/ ConsumeStep

SpecFind == InitFind /\ [][NextFind]_vars

\* the candidate list the stepped findGridCells has left is the one the
\* operator findGridCells gives
FindAgrees ==
  (frame.fn = "findGridCells" /\ frame.at \in {"scan", "done"}) =>
    LET used == findGridCells(frame.iSelf, gridSideCount, gridMinimum, gridCellWidth,
                              dev_gridCellStartIndices, mem[dev_pos], frame.oobS)
    IN /\ Len(used) = frame.currLoc + 1
       /\ \A k \in 1 .. Len(used) : frame.usedGridCells[k - 1] = used[k]

\* C12: findGridCells writes at most 8 cell ids and then the terminator -1
\* at an index between 0 and 8, no write goes outside the 9 slots of the
\* list, and the consumer loop stops at the terminator, having visited the
\* cell ids written and nothing else
C12_CandidateListBounded ==
  frame.fn = "findGridCells" =>
    /\ \A w \in 1 .. Len(frame.writes) : frame.writes[w] \in 0 .. (maxGridCells - 1)
    /\ frame.currLoc <= 8
    /\ frame.at \in {"scan", "done"} =>
         /\ Len(frame.writes) = frame.currLoc + 1
         /\ frame.writes[Len(frame.writes)] = frame.currLoc
         /\ frame.usedGridCells[frame.currLoc] = -1
         /\ \A k \in 0 .. (frame.currLoc - 1) : frame.usedGridCells[k] # -1
         /\ frame.k <= frame.currLoc
    /\ frame.at = "done" =>
         /\ frame.k = frame.currLoc
         /\ frame.seen = [k \in 1 .. frame.currLoc |-> frame.usedGridCells[k - 1]]

\* all eight probed cells were occupied: the list is full, the terminator
\* is in the last slot and the consumer has stopped there
C12_Witness ==
  /\ frame.fn = "findGridCells"
  /\ frame.at = "done"
  /\ frame.currLoc = 8
  /\ frame.k = 8
  /\ frame.usedGridCells[0] # frame.usedGridCells[maxGridCells - 1]

\* the velocity the kernel that has just run started from in slot s
Source(s) == IF pc = "c_pos" THEN mem[dev_vel2][s].v ELSE mem[dev_vel1][s].v

\* no other particle lies within any of the three rule distances of slot s
Isolated(s) ==
  \A j \in Slots(N) \ {s} : \A d \in RuleDistances :
    ~(Length(VSub(Pos[j].v, Pos[s].v)) < d)

\* C13: in each of the three strategies a particle with no other particle
\* within any rule distance (the only particle when N = 1 too) gets a zero
\* velocity change: the velocity stored for it is its current velocity,
\* clamped
C13_IsolatedKeepsVelocity ==
  AfterVelocity =>
    \A s \in Slots(N) : Isolated(s) => Stored(s) = clampSpeed(Source(s))

(***************************************************************************)
(* Boids::initSimulation call by call, and Boids::endSimulation.  Every    *)
(* cudaMalloc either succeeds or fails; a failure leaves its error code as *)
(* the runtime's last error, which checkCUDAError reads (and resets) with  *)
(* cudaGetLastError: when it is not cudaSuccess the message is printed and *)
(* the process exits.  frame holds the position ip in initProgram, the     *)
(* number of calls made and, as ghosts, the allocation that failed and the *)
(* calls performed (trace).                                                *)
(***************************************************************************)
MaxInits == 2

\* the calls of initSimulation in program order
initProgram ==
  << [op |-> "cudaMalloc", buf |-> "dev_pos"],
     [op |-> "check", msg |-> "cudaMalloc dev_pos failed!"],
     [op |-> "cudaMalloc", buf |-> "dev_vel1"],
     [op |-> "check", msg |-> "cudaMalloc dev_vel1 failed!"],
     [op |-> "cudaMemset", buf |-> "dev_vel1"],
     [op |-> "check", msg |-> "Initializing dev_vel1 failed"],
     [op |-> "cudaMalloc", buf |-> "dev_vel2"],
     [op |-> "check", msg |-> "cudaMalloc dev_vel2 failed!"],
     [op |-> "cudaMemset", buf |-> "dev_vel2"],
     [op |-> "check", msg |-> "Initializing dev_vel2 failed"],
     [op |-> "launch", kernel |-> "kernGenerateRandomPosArray"],
     [op |-> "check", msg |-> "kernGenerateRandomPosArray failed!"],
     [op |-> "gridParams"],
     [op |-> "cudaMalloc", buf |-> "dev_particleArrayIndices"],
     [op |-> "check", msg |-> "cudaMalloc dev_particleArrayIndices failed!"],
     [op |-> "cudaMalloc", buf |-> "dev_particleGridIndices"],
     [op |-> "check", msg |-> "cudaMalloc dev_particleGridIndices failed!"],
     [op |-> "cudaMalloc", buf |-> "dev_gridCellStartIndices"],
     [op |-> "check", msg |-> "cudaMalloc devgridCellStartIndices failed!"],
     [op |-> "cudaMalloc", buf |-> "dev_gridCellEndIndices"],
     [op |-> "thrustPointers"],
     [op |-> "check", msg |-> "Assign dev_thrust_pointers failed!"],
     [op |-> "cudaMalloc", buf |-> "dev_posCopy"],
     [op |-> "check", msg |-> "cudaMalloc dev_posCopy failed!"],
     [op |-> "cudaThreadSynchronize"] >>

\* the positions kernGenerateRandomPosArray may give a particle
GeneratedPositions == {b.p : b \in BoidChoices}

\* before the first initSimulation: the globals are zero, nothing is allocated
InitHost ==
  /\ numObjects = 0
  /\ mem = [b \in Buffers |-> <<>>]
  /\ dev_pos = 0 /\ dev_vel1 = 0 /\ dev_vel2 = 0 /\ dev_posCopy = 0
  /\ dev_particleArrayIndices = <<>>
  /\ dev_particleGridIndices = <<>>
  /\ dev_gridCellStartIndices = <<>>
  /\ dev_gridCellEndIndices = <<>>
  /\ gridMinimum = Zero3
  /\ gridGlobals = [cellWidth |-> 0, sideCount |-> 0, cellCount |-> 0]
  /\ pc = "idle"
  /\ dt = 0
  /\ tick = 0
  /\ tpc = <<>>
  /\ acc = {}
  /\ snap = [mode |-> "none", pos |-> <<>>, vel |-> <<>>]
  /\ frame = [fn |-> "main", calls |-> 0]
  /\ rt = [live |-> {}, err |-> "cudaSuccess", out |-> <<>>, exited |-> FALSE]

InInit(op) ==
  /\ frame.fn = "initSimulation"
  /\ ~rt.exited
  /\ frame.ip <= Len(initProgram)
  /\ initProgram[frame.ip].op = op

\* the call at ip has been made
Advance(f) == [f EXCEPT !.ip = f.ip + 1, !.trace = Append(f.trace, f.ip)]

\* initSimulation(N) is called: numObjects = N
CallInit ==
  /\ frame.fn = "main"
  /\ frame.calls < MaxInits
  /\ rt.live = {}
  /\ \E n \in 1 .. MaxN : numObjects' = n
  /\ frame' = [fn |-> "initSimulation", calls |-> frame.calls + 1, ip |-> 1,
               failed |-> "none", trace |-> <<>>]
  /\ UNCHANGED <<mem, handles, indexArrays, tables, gridMinimum, gridGlobals,
                 pc, dt, tick, tpc, acc, snap, rt>>

\* the handle cudaMalloc stores in the pointer named buf
HandleOf(buf) ==
  IF buf = "dev_pos" THEN 1 ELSE IF buf = "dev_vel1" THEN 2
  ELSE IF buf = "dev_vel2" THEN 3 ELSE 4

Vec3Allocations == {"dev_pos", "dev_vel1", "dev_vel2", "dev_posCopy"}

\* a cudaMalloc that succeeds: the pointer is set, the memory holds garbage
MallocOk ==
  /\ InInit("cudaMalloc")
  /\ LET buf == initProgram[frame.ip].buf
         set(name, old, new) == IF buf = name THEN new ELSE old
     IN /\ rt' = [rt EXCEPT !.live = rt.live \cup {buf}]
        /\ dev_pos' = set("dev_pos", dev_pos, 1)
        /\ dev_vel1' = set("dev_vel1", dev_vel1, 2)
        /\ dev_vel2' = set("dev_vel2", dev_vel2, 3)
        /\ dev_posCopy' = set("dev_posCopy", dev_posCopy, 4)
        /\ mem' = IF buf \in Vec3Allocations
                    THEN [mem EXCEPT ![HandleOf(buf)] =
                            [i \in Slots(numObjects) |-> Stale]]
                    ELSE mem
        /\ dev_particleArrayIndices' =
             set("dev_particleArrayIndices", dev_particleArrayIndices,
                 [i \in Slots(numObjects) |-> 0])
        /\ dev_particleGridIndices' =
             set("dev_particleGridIndices", dev_particleGridIndices,
                 [i \in Slots(numObjects) |-> 0])
        /\ dev_gridCellStartIndices' =
             set("dev_gridCellStartIndices", dev_gridCellStartIndices,
                 [c \in 0 .. (gridGlobals.cellCount - 1) |-> 0])
        /\ dev_gridCellEndIndices' =
             set("dev_gridCellEndIndices", dev_gridCellEndIndices,
                 [c \in 0 .. (gridGlobals.cellCount - 1) |-> 0])
  /\ frame' = Advance(frame)
  /\ UNCHANGED <<numObjects, gridMinimum, gridGlobals, pc, dt, tick, tpc, acc, snap>>

\* a cudaMalloc that fails: nothing is allocated, the error is pending
MallocFails ==
  /\ InInit("cudaMalloc")
  /\ frame.failed = "none"
  /\ rt' = [rt EXCEPT !.err = "cudaErrorMemoryAllocation"]
  /\ frame' = [Advance(frame) EXCEPT !.failed = initProgram[frame.ip].buf]
  /\ UNCHANGED <<numObjects, mem, handles, indexArrays, tables, gridMinimum,
                 gridGlobals, pc, dt, tick, tpc, acc, snap>>

\* checkCUDAErrorWithLine(msg)
checkCUDAError ==
  /\ InInit("check")
  /\ rt' = IF rt.err # "cudaSuccess"
             THEN [rt EXCEPT !.err = "cudaSuccess",
                             !.out = Append(rt.out, initProgram[frame.ip].msg),
                             !.exited = TRUE]
             ELSE rt
  /\ frame' = Advance(frame)
  /\ UNCHANGED <<numObjects, mem, handles, indexArrays, tables, gridMinimum,
                 gridGlobals, pc, dt, tick, tpc, acc, snap>>

\* cudaMemset(buf, 0, ..)
Memset ==
  /\ InInit("cudaMemset")
  /\ mem' = [mem EXCEPT ![HandleOf(initProgram[frame.ip].buf)] =
               [i \in Slots(numObjects) |-> Stale]]
  /\ frame' = Advance(frame)
  /\ UNCHANGED <<numObjects, handles, indexArrays, tables, gridMinimum,
                 gridGlobals, pc, dt, tick, tpc, acc, snap, rt>>

\* kernGenerateRandomPosArray: every particle gets a position of the domain
GeneratePositions ==
  /\ InInit("launch")
  /\ \E ps \in [Slots(numObjects) -> GeneratedPositions] :
       mem' = [mem EXCEPT ![dev_pos] =
                 [i \in Slots(numObjects) |-> [v |-> ps[i], id |-> i + 1, t |-> 0]]]
  /\ frame' = Advance(frame)
  /\ UNCHANGED <<numObjects, handles, indexArrays, tables, gridMinimum,
                 gridGlobals, pc, dt, tick, tpc, acc, snap, rt>>

\* the grid parameters: three assignments and gridMinimum -= halfGridWidth
GridParams ==
  /\ InInit("gridParams")
  /\ gridGlobals' = GridReady
  /\ gridMinimum' = initGridMinimum(gridMinimum)
  /\ frame' = Advance(frame)
  /\ UNCHANGED <<numObjects, mem, handles, indexArrays, tables,
                 pc, dt, tick, tpc, acc, snap, rt>>

\* the two thrust::device_ptr are set up; the last call, cudaThreadSynchronize,
\* returns to main
HostOnly ==
  /\ InInit("thrustPointers") \/ InInit("cudaThreadSynchronize")
  /\ frame' = IF frame.ip = Len(initProgram)
                THEN [fn |-> "main", calls |-> frame.calls]
                ELSE Advance(frame)
  /\ UNCHANGED <<numObjects, mem, handles, indexArrays, tables, gridMinimum,
                 gridGlobals, pc, dt, tick, tpc, acc, snap, rt>>

\* endSimulation: the eight cudaFree
EndSimulation ==
  /\ frame.fn = "main"
  /\ rt.live # {}
  /\ ~rt.exited
  /\ rt' = [rt EXCEPT !.live = {}]
  /\ mem' = [b \in Buffers |-> <<>>]
  /\ dev_particleArrayIndices' = <<>>
  /\ dev_particleGridIndices' = <<>>
  /\ dev_gridCellStartIndices' = <<>>
  /\ dev_gridCellEndIndices' = <<>>
  /\ UNCHANGED <<numObjects, handles, gridMinimum, gridGlobals, pc, dt, tick,
                 tpc, acc, snap, frame>>

NextInit ==
  \/ CallInit \/ MallocOk \/ MallocFails \/ checkCUDAError \/ Memset
  \/ GeneratePositions \/ GridParams \/ HostOnly \/ EndSimulation

SpecInit == InitHost /\ [][NextInit]_vars

\* the diagnostic msg names the allocation buf
Identifies(msg, buf) ==
  <<msg, buf>> \in
    { <<"cudaMalloc dev_pos failed!", "dev_pos">>,
      <<"cudaMalloc dev_vel1 failed!", "dev_vel1">>,
      <<"cudaMalloc dev_vel2 failed!", "dev_vel2">>,
      <<"cudaMalloc dev_particleArrayIndices failed!", "dev_particleArrayIndices">>,
      <<"cudaMalloc dev_particleGridIndices failed!", "dev_particleGridIndices">>,
      <<"cudaMalloc devgridCellStartIndices failed!", "dev_gridCellStartIndices">>,
      <<"cudaMalloc dev_gridCellEndIndices failed!", "dev_gridCellEndIndices">>,
      <<"cudaMalloc dev_posCopy failed!", "dev_posCopy">> }

\* the calls of initSimulation made after the cudaMalloc that failed
AfterFailure ==
  LET at == CHOOSE k \in 1 .. Len(frame.trace) :
              /\ initProgram[frame.trace[k]].op = "cudaMalloc"
              /\ initProgram[frame.trace[k]].buf = frame.failed
  IN {frame.trace[k] : k \in (at + 1) .. Len(frame.trace)}

\* C14: when one of the eight allocations of initSimulation fails, the
\* process exits with a diagnostic that names that allocation, before any
\* later allocation, pointer set-up or kernel launch is performed
C14_AllocationFailureDiagnosed ==
  /\ (frame.fn = "initSimulation" /\ frame.failed # "none") =>
       \A ip \in AfterFailure :
         initProgram[ip].op \notin {"cudaMalloc", "cudaMemset", "thrustPointers",
                                    "launch", "cudaThreadSynchronize"}
  /\ rt.exited =>
       /\ frame.failed # "none"
       /\ Len(rt.out) = 1
       /\ Identifies(rt.out[1], frame.failed)

\* the largest of the three rule distances
MaxRuleDistance == CHOOSE m \in RuleDistances : \A d \in RuleDistances : d <= m

\* C15: after every call of initSimulation, the first one and any later one
\* made after endSimulation, cellWidth = 2 * max rule distance,
\* sideCount = 2 * (floor(scene_scale / cellWidth) + 1),
\* cellCount = sideCount^3, and the grid minimum is the domain centre (the
\* origin) minus (sideCount / 2) * cellWidth on each axis
C15_GridParameters ==
  (frame.fn = "main" /\ frame.calls >= 1) =>
    /\ gridGlobals.cellWidth = 2 * MaxRuleDistance
    /\ gridGlobals.sideCount = 2 * ((scene_scale \div gridGlobals.cellWidth) + 1)
    /\ gridGlobals.cellCount =
         gridGlobals.sideCount * gridGlobals.sideCount * gridGlobals.sideCount
    /\ \A a \in 1 .. 3 :
         gridMinimum[a] = 0 - (gridGlobals.sideCount \div 2) * gridGlobals.cellWidth

\* C16: after kernIdentifyCellStartEnd the cell of the last slot is closed,
\* end[cell of slot N-1] = N, whether it holds one particle or several and
\* also when N = 1; at every slot i >= 1 whose cell differs from that of
\* slot i-1, end[cell of slot i-1] = i and start[cell of slot i] = i; and
\* start[cell of slot 0] = 0
C16_LastCellClosed ==
  AfterIdentify =>
    /\ dev_gridCellEndIndices[dev_particleGridIndices[N - 1]] = N
    /\ dev_gridCellStartIndices[dev_particleGridIndices[0]] = 0
    /\ \A i \in Slots(N) :
         (i >= 1 /\ dev_particleGridIndices[i] # dev_particleGridIndices[i - 1]) =>
           /\ dev_gridCellEndIndices[dev_particleGridIndices[i - 1]] = i
           /\ dev_gridCellStartIndices[dev_particleGridIndices[i]] = i

(***************************************************************************)
(* The ticks started from two particles at rest placed around cell corners *)
(* and domain corners, the second one at a small offset from the first     *)
(***************************************************************************)
\* a cell corner inside the domain, just below it, the centre of a cell, the
\* two extreme corners of the domain and a point on the upper x face
CoverPositions ==
  { Vec(0, 0, 0), <<-1, -1, -1>>, Vec(20, 20, 20), Vec(-100, -100, -100),
    Vec(100, 100, 100), Vec(100, 39, -41) }

\* offsets shorter than the largest rule distance, along the axes and the
\* diagonals, and one longer
CoverOffsets ==
  { <<1999, 0, 0>>, <<0, -1999, 0>>, <<0, 0, 1999>>, <<-1999, 0, 0>>,
    <<1150, 1150, 1150>>, <<-1150, -1150, -1150>>, <<1400, -1400, 1>>,
    <<-1, 1400, -1400>>, <<2000, 0, 0>> }

InitCover ==
  \E p \in CoverPositions : \E d \in CoverOffsets :
    /\ \A a \in 1 .. 3 : -scene_scale <= p[a] + d[a] /\ p[a] + d[a] <= scene_scale
    /\ InitWith(2, [i \in Slots(2) |->
                      [p |-> IF i = 0 THEN p ELSE VAdd(p, d), v |-> Zero3]])

SpecCover == InitCover /\ [][Next]_vars

\* a grid velocity kernel has just run on the positions of dev_pos
GridVelocityDone == pc \in {"s_pos", "c_pos"}

\* the cells findGridCells probes for the particle of slot i
ProbedFor(i) ==
  LET cpy == probes(Pos[i].v, gridMinimum, gridCellWidth)
  IN {cpy[k] : k \in 1 .. 8}

\* slot j holds a neighbour of slot i: another particle inside the domain
\* closer than the largest rule distance
Neighbour(i, j) ==
  /\ i # j
  /\ InDomain(Pos[i].v) /\ InDomain(Pos[j].v)
  /\ Length(VSub(Pos[j].v, Pos[i].v)) < MaxRuleDistance

\* with sums that are exact: for particles p and q inside the domain closer
\* than the largest rule distance (cellWidth / 2), the cell of q is one of
\* the eight cells findGridCells probes for p, the 2x2x2 block between the
\* cell of p - cellWidth/2 and the cell of p + cellWidth/2
CoverWithExactSums ==
  GridVelocityDone =>
    /\ 2 * MaxRuleDistance = gridCellWidth
    /\ \A i, j \in Slots(N) :
         Neighbour(i, j) =>
           /\ boidGrid(Pos[j].v, gridMinimum, gridCellWidth) \in ProbedFor(i)
           /\ \A oob \in OobChoices :
                CellOf(Pos[j].v) \in
                  Elems(findGridCells(i, gridSideCount, gridMinimum, gridCellWidth,
                                      dev_gridCellStartIndices, Pos, oob[1]))
           /\ LET lo == boidGrid(VSub(Pos[i].v, <<MaxRuleDistance, MaxRuleDistance, MaxRuleDistance>>), gridMinimum, gridCellWidth)
              IN ProbedFor(i) = {<<lo[1] + x, lo[2] + y, lo[3] + z>> :
                                   x \in 0 .. 1, y \in 0 .. 1, z \in 0 .. 1}

(***************************************************************************)
(* findGridCells and kernComputeIndices in binary32.  A float is an        *)
(* integer number of units of 2^-19; every sum and difference is rounded   *)
(* to 24 significant bits, ties to even, as the device rounds it.          *)
(***************************************************************************)
\* 1.0f
One32 == 2 ^ 19

\* the spacing of the floats around magnitude m, from spacing s upwards
RECURSIVE Spacing32(_, _)
Spacing32(m, s) == IF m < (2 ^ 24) * s THEN s ELSE Spacing32(m, 2 * s)

\* round to nearest float, ties to even
Round32(n) ==
  LET m == Abs(n)
      s == Spacing32(m, 1)
      q == m \div s
      r == m % s
      up == IF 2 * r > s THEN 1 ELSE IF 2 * r < s THEN 0 ELSE q % 2
      sign == IF n < 0 THEN -1 ELSE 1
  IN sign * (q + up) * s

\* cellWidth, scene_scale, the largest rule distance and gridMinimum as floats
cellWidth32 == (gridCellWidth \div Unit) * One32
scene_scale32 == (scene_scale \div Unit) * One32
ruleDistance32 == (rule1Distance \div Unit) * One32
gridMin32 == - ((halfGridWidth \div Unit) * One32)

\* one axis of boidGrid: (location - gridMin) * inverseCellWidth cast to
\* int.  The difference is rounded; the product with the float nearest to
\* 1 / 40 turns over exactly at the multiples of cellWidth, so that the cast
\* gives the integer part of the quotient
boidGridAxis32(x) == TruncDiv(Round32(x - gridMin32), cellWidth32)

boidGrid32(location) ==
  <<boidGridAxis32(location[1]), boidGridAxis32(location[2]), boidGridAxis32(location[3])>>

\* the eight cells cpy of findGridCells, extremeBoid = pos[iSelf] + boidOffset
\* and pos[iSelf] - boidOffset being rounded sums
probes32(location) ==
  LET half == cellWidth32 \div 2
      hi == boidGrid32([a \in 1 .. 3 |-> Round32(location[a] + half)])
      lo == boidGrid32([a \in 1 .. 3 |-> Round32(location[a] - half)])
  IN [i \in 1 .. 8 |->
        IF i <= 4 THEN <<hi[1] - xoffsets[i], hi[2] - yoffsets[i], hi[3]>>
        ELSE <<lo[1] + xoffsets[i - 4], lo[2] + yoffsets[i - 4], lo[3]>>]

\* the coordinates of a particle: at and just below the middle of a cell on
\* x, at and just below a cell border on z (all of them floats)
Subjects32 ==
  { <<x, One32, z>> : x \in {20 * One32, 20 * One32 - 2, 20 * One32 - 4},
                      z \in {40 * One32, 40 * One32 - 2, 40 * One32 - 4} }

\* the coordinates of the other particle: at and just below a cell border
\* on x and on z
Others32 ==
  { <<x, One32, z>> : x \in {0, -2, -3, -5}, z \in {40 * One32, 40 * One32 - 2} }

InitBinary32 ==
  \E p \in Subjects32 : \E q \in Others32 :
    /\ gridMinimum = initGridMinimum(Zero3)
    /\ dev_gridCellStartIndices = [c \in Cells |-> -1]
    /\ dev_gridCellEndIndices = [c \in Cells |-> -1]
    /\ numObjects = 2
    /\ mem = [b \in Buffers |-> [i \in Slots(2) |-> Stale]]
    /\ dev_pos = 1 /\ dev_vel1 = 2 /\ dev_vel2 = 3 /\ dev_posCopy = 4
    /\ dev_particleArrayIndices = [i \in Slots(2) |-> 0]
    /\ dev_particleGridIndices = [i \in Slots(2) |-> 0]
    /\ pc = "s_index"
    /\ dt = 0
    /\ tick = 1
    /\ tpc = [i \in Slots(2) |-> "off"]
    /\ acc = {}
    /\ snap = [mode |-> "scattered", pos |-> mem[1], vel |-> mem[2]]
    /\ rt = RtReady
    /\ gridGlobals = GridReady
    /\ frame = [fn |-> "binary32", at |-> "indices", pos |-> <<p, q>>,
                gridCoord |-> <<>>, cpy |-> <<>>]

\* kernComputeIndices: gridCoord = boidGrid(pos[boid], ...), gridIndices[boid]
\* its 1D index
ComputeIndices32 ==
  /\ frame.fn = "binary32"
  /\ frame.at = "indices"
  /\ LET gridCoord == [b \in 1 .. 2 |-> boidGrid32(frame.pos[b])]
     IN /\ frame' = [frame EXCEPT !.at = "find", !.gridCoord = gridCoord]
        /\ dev_particleGridIndices' =
             [i \in Slots(2) |-> gridIndex3Dto1D(gridCoord[i + 1][1], gridCoord[i + 1][2],
                                                 gridCoord[i + 1][3], gridSideCount)]
        /\ dev_particleArrayIndices' = [i \in Slots(2) |-> i]
  /\ pc' = "s_vel"
  /\ UNCHANGED <<numObjects, mem, handles, tables, gridMinimum, dt, tick, tpc,
                 acc, snap, gridGlobals, rt>>

\* findGridCells for the first particle: the eight cells it probes
FindGridCells32 ==
  /\ frame.fn = "binary32"
  /\ frame.at = "find"
  /\ frame' = [frame EXCEPT !.at = "done", !.cpy = probes32(frame.pos[1])]
  /\ UNCHANGED <<numObjects, mem, handles, indexArrays, tables, gridMinimum,
                 pc, dt, tick, tpc, acc, snap, gridGlobals, rt>>

NextBinary32 == ComputeIndices32 \/ FindGridCells32

SpecBinary32 == InitBinary32 /\ [][NextBinary32]_vars

\* both coordinates triples are inside the domain
InDomain32(v) == \A a \in 1 .. 3 : -scene_scale32 <= v[a] /\ v[a] <= scene_scale32

\* q is closer to p than the largest rule distance R: the offset across is
\* so small that its square is below R, and then |q - p| < R as soon as the
\* offset along x is below R (R^2 - dx^2 >= 2R - 1 for integers dx < R)
Closer32(p, q) ==
  LET dx == Abs(q[1] - p[1])
      dy == Abs(q[2] - p[2])
      dz == Abs(q[3] - p[3])
  IN /\ dy <= 2 ^ 10 /\ dz <= 2 ^ 10
     /\ dy * dy + dz * dz < ruleDistance32
     /\ dx < ruleDistance32

\* C17: for particles p and q inside the domain closer than the largest
\* rule distance (cellWidth / 2), the cell kernComputeIndices gives q is one
\* of the eight cells findGridCells probes for p
C17_ProbesCoverNeighbours ==
  (frame.fn = "binary32" /\ frame.at = "done") =>
    LET p == frame.pos[1]
        q == frame.pos[2]
    IN (InDomain32(p) /\ InDomain32(q) /\ Closer32(p, q)) =>
         frame.gridCoord[2] \in {frame.cpy[k] : k \in 1 .. 8}

(***************************************************************************)
(* The rest of a grid tick as a function of the order the sort leaves,     *)
(* from a state where the sort is the next step                            *)
(***************************************************************************)
\* the particle a slot of the coherent arrays names; a slot outside the
\* arrays names none
IdAt(arr, n) == IF n \in DOMAIN arr THEN arr[n].id ELSE 0

\* the particles (id, value) of an array, whatever their slots
ByParticle(arr) == {<<arr[i].id, arr[i].v>> : i \in DOMAIN arr}

\* sort_by_key leaving order p, kernIdentifyCellStartEnd,
\* kernUpdateVelNeighborSearchScattered reading oob outside the tables,
\* kernUpdatePos: the tables, the neighbours each particle examines, the
\* new velocities and positions
ScatteredRun(p, oob) ==
  LET keys == Permute(N, dev_particleGridIndices, p)
      indices == Permute(N, dev_particleArrayIndices, p)
      r == kernIdentifyCellStartEnd(N, keys, dev_gridCellStartIndices,
                                    dev_gridCellEndIndices)
      vel == kernUpdateVelNeighborSearchScattered(N, gridSideCount, gridMinimum,
               gridCellWidth, r.s, r.e, indices, mem[dev_pos], mem[dev_vel1],
               mem[dev_vel2], oob[1], oob[2], tick)
  IN [s |-> r.s, e |-> r.e,
      examined |-> [iSelf \in Slots(N) |->
                      Elems(ScanScatter(iSelf, r.s, r.e, indices,
                              findGridCells(iSelf, gridSideCount, gridMinimum,
                                gridCellWidth, r.s, mem[dev_pos], oob[1]),
                              oob[1], oob[2]))],
      vel |-> [i \in Slots(N) |-> vel[i].v],
      pos |-> [i \in Slots(N) |->
                 kernUpdatePos(N, dt, mem[dev_pos], vel, tick)[i].v]]

\* the same for the coherent tick, which gathers the positions and the
\* velocities in the order of the sort: everything is told per particle
CoherentRun(p, oob) ==
  LET keys == Permute(N, dev_particleGridIndices, p)
      indices == Permute(N, dev_particleArrayIndices, p)
      pos == kernMakeCoherent(N, indices, mem[dev_pos])
      vel2 == kernMakeCoherent(N, indices, mem[dev_vel1])
      r == kernIdentifyCellStartEnd(N, keys, dev_gridCellStartIndices,
                                    dev_gridCellEndIndices)
      vel == kernUpdateVelNeighborSearchCoherent(N, gridSideCount, gridMinimum,
               gridCellWidth, r.s, r.e, pos, vel2, oob[1], oob[2], tick)
  IN [s |-> r.s, e |-> r.e,
      examined |-> {<<pos[iSelf].id,
                      {IdAt(pos, n) :
                         n \in Elems(ScanCoherent(iSelf, r.s, r.e,
                                 findGridCells(iSelf, gridSideCount, gridMinimum,
                                   gridCellWidth, r.s, pos, oob[1]),
                                 oob[1], oob[2]))}>> : iSelf \in Slots(N)},
      vel |-> ByParticle(vel),
      pos |-> ByParticle(kernUpdatePos(N, dt, pos, vel, tick))]

\* the orders sort_by_key may leave in the current state
SortOrders == SortedPerms(N, dev_particleGridIndices)

\* C18: two runs of a scattered-grid tick that differ only in the order
\* the sort gives to particles of the same cell end with the same start
\* and end tables, the same examined neighbours for every particle and the
\* same velocity and position in every slot; two runs of a coherent-grid
\* tick end with the same tables and, per particle, the same examined
\* neighbours, velocity and position
C18_TieOrderIrrelevant ==
  /\ pc = "s_sort" =>
       \A oob \in OobChoices : \A p1, p2 \in SortOrders :
         ScatteredRun(p1, oob) = ScatteredRun(p2, oob)
  /\ pc = "c_sort" =>
       \A oob \in OobChoices : \A p1, p2 \in SortOrders :
         CoherentRun(p1, oob) = CoherentRun(p2, oob)

(***************************************************************************)
(* kernIdentifyCellStartEnd thread by thread: the threads of the launch,   *)
(* one more than N, run their reads and each of their writes in any order  *)
(***************************************************************************)
MaxIdentify == 3

\* the cell ids of the sorted arrays the launches start from
IdentifyCells == {0, 129, 130, gridCellCount - 1}

\* the threads of the launch: the block is larger than N
IdentifyThreads == 0 .. numObjects

\* a write  table[cell] = value
TableWrite(table, cell, value) == [table |-> table, cell |-> cell, value |-> value]

\* the writes of a thread that also writes when the cell id does not change
identifyWrites_NoCompare(index, n, particleGridIndices) ==
  LET currentGridLoc == particleGridIndices[index]
  IN IF index >= n THEN <<>>
     ELSE IF index = 0
       THEN <<TableWrite("gridCellStartIndices", currentGridLoc, index)>>
     ELSE <<TableWrite("gridCellEndIndices", particleGridIndices[index - 1], index),
            TableWrite("gridCellStartIndices", currentGridLoc, index)>>
          \o (IF index = n - 1
                THEN <<TableWrite("gridCellEndIndices", currentGridLoc, n)>>
                ELSE <<>>)

\* the writes thread index performs, in program order
identifyWrites(index, n, particleGridIndices) ==
  LET currentGridLoc == particleGridIndices[index]
  IN IF index >= n THEN <<>>
     ELSE IF index = 0
       THEN <<TableWrite("gridCellStartIndices", currentGridLoc, index)>>
     ELSE IF particleGridIndices[index - 1] = currentGridLoc THEN <<>>
     ELSE <<TableWrite("gridCellEndIndices", particleGridIndices[index - 1], index),
            TableWrite("gridCellStartIndices", currentGridLoc, index)>>
          \o (IF index = n - 1
                THEN <<TableWrite("gridCellEndIndices", currentGridLoc, n)>>
                ELSE <<>>)

\* the elements of particleGridIndices thread index reads
identifyReads(index, n) ==
  IF index >= n THEN {}
  ELSE IF index = 0 THEN {0}
  ELSE {index, index - 1}

\* the launch: a sorted array of cell ids, the tables reset to -1
InitIdentify ==
  \E n \in 1 .. MaxIdentify : \E keys \in [Slots(n) -> IdentifyCells] :
    /\ \A i \in Slots(n) : i > 0 => keys[i - 1] <= keys[i]
    /\ numObjects = n
    /\ dev_particleGridIndices = keys
    /\ dev_particleArrayIndices = [i \in Slots(n) |-> i]
    /\ dev_gridCellStartIndices = [c \in Cells |-> -1]
    /\ dev_gridCellEndIndices = [c \in Cells |-> -1]
    /\ gridMinimum = initGridMinimum(Zero3)
    /\ mem = [b \in Buffers |-> [i \in Slots(n) |-> Stale]]
    /\ dev_pos = 1 /\ dev_vel1 = 2 /\ dev_vel2 = 3 /\ dev_posCopy = 4
    /\ pc = "s_ident"
    /\ dt = 0
    /\ tick = 1
    /\ tpc = [t \in 0 .. n |-> "ready"]
    /\ acc = {}
    /\ snap = [mode |-> "scattered", pos |-> mem[1], vel |-> mem[2]]
    /\ rt = RtReady
    /\ gridGlobals = GridReady
    /\ frame = [fn |-> "kernIdentifyCellStartEnd",
                todo |-> [t \in 0 .. n |-> <<>>]]

\* thread t up to its first write: the bound test, the reads of
\* particleGridIndices and the comparison
IdentifyRead(t) ==
  /\ frame.fn = "kernIdentifyCellStartEnd"
  /\ pc = "s_ident"
  /\ tpc[t] = "ready"
  /\ LET todo == identifyWrites(t, numObjects, dev_particleGridIndices)
     IN /\ frame' = [frame EXCEPT !.todo[t] = todo]
        /\ tpc' = [tpc EXCEPT ![t] = IF todo = <<>> THEN "done" ELSE "writing"]
  /\ acc' = acc \cup {Access(t, "r", "particleGridIndices", i) :
                        i \in identifyReads(t, numObjects)}
  /\ UNCHANGED <<numObjects, gridMinimum, gridGlobals, rt, mem, handles,
                 indexArrays, tables, pc, dt, tick, snap>>

\* the next write of thread t
IdentifyWrite(t) ==
  /\ frame.fn = "kernIdentifyCellStartEnd"
  /\ tpc[t] = "writing"
  /\ LET w == Head(frame.todo[t])
         rest == Tail(frame.todo[t])
     IN /\ IF w.table = "gridCellStartIndices"
             THEN /\ dev_gridCellStartIndices' =
                       WriteInt(dev_gridCellStartIndices, w.cell, w.value)
                  /\ UNCHANGED dev_gridCellEndIndices
             ELSE /\ dev_gridCellEndIndices' =
                       WriteInt(dev_gridCellEndIndices, w.cell, w.value)
                  /\ UNCHANGED dev_gridCellStartIndices
        /\ acc' = acc \cup {Access(t, "w", w.table, w.cell)}
        /\ frame' = [frame EXCEPT !.todo[t] = rest]
        /\ tpc' = [tpc EXCEPT ![t] = IF rest = <<>> THEN "done" ELSE "writing"]
  /\ UNCHANGED <<numObjects, gridMinimum, gridGlobals, rt, mem, handles,
                 indexArrays, pc, dt, tick, snap>>

\* the kernel is over once every thread has returned
IdentifyJoin ==
  /\ frame.fn = "kernIdentifyCellStartEnd"
  /\ pc = "s_ident"
  /\ \A t \in IdentifyThreads : tpc[t] = "done"
  /\ pc' = "s_vel"
  /\ UNCHANGED <<numObjects, gridMinimum, frame, gridGlobals, rt, tpc, acc, mem,
                 handles, indexArrays, tables, dt, tick, snap>>

NextIdentify ==
  \/ \E t \in IdentifyThreads : IdentifyRead(t) \/ IdentifyWrite(t)
  \/ IdentifyJoin

SpecIdentify == InitIdentify /\ [][NextIdentify]_vars

\* the accesses of the launch to the two tables
TableAccesses ==
  {a \in acc : a.buf \in {"gridCellStartIndices", "gridCellEndIndices"}}

\* C19: under every interleaving of the threads of kernIdentifyCellStartEnd
\* on a sorted cell-id array, no two threads write the same entry of the
\* start table or of the end table, no thread reads a table entry another
\* thread writes, and once the threads are done the tables are those the
\* threads give when run one after the other, whatever the order was
C19_IdentifyRaceFree ==
  frame.fn = "kernIdentifyCellStartEnd" =>
    /\ \A a, b \in TableAccesses :
         (a.th # b.th /\ a.buf = b.buf /\ a.slot = b.slot) =>
            (a.op # "w" /\ b.op # "w")
    /\ pc = "s_vel" =>
         LET r == kernIdentifyCellStartEnd(numObjects, dev_particleGridIndices,
                    [c \in Cells |-> -1], [c \in Cells |-> -1])
         IN dev_gridCellStartIndices = r.s /\ dev_gridCellEndIndices = r.e

\* a launch of three threads on three different cells is over: the middle
\* thread and the last thread have both written the end table
C19_Witness ==
  /\ frame.fn = "kernIdentifyCellStartEnd"
  /\ pc = "s_vel"
  /\ numObjects = 3
  /\ \E t1, t2 \in Slots(numObjects) :
       /\ t1 # t2
       /\ \E a, b \in TableAccesses :
            a.th = t1 /\ b.th = t2 /\ a.op = "w" /\ b.op = "w"
            /\ a.buf = "gridCellEndIndices" /\ b.buf = "gridCellEndIndices"

\* how many times x occurs in the sequence s
Occurrences(s, x) == Cardinality({k \in 1 .. Len(s) : s[k] = x})

\* the cell ids of a candidate list, its terminator left out
Candidates(used) == {used[k] : k \in 1 .. (Len(used) - 1)}

\* the candidate list of slot iSelf and the neighbours its rules examine,
\* in the scattered and in the coherent kernel
CandidateList(iSelf, oob) ==
  findGridCells(iSelf, gridSideCount, gridMinimum, gridCellWidth,
                dev_gridCellStartIndices, Pos, oob[1])

Examined(iSelf, oob) ==
  IF pc = "s_vel"
    THEN ScanScatter(iSelf, dev_gridCellStartIndices, dev_gridCellEndIndices,
                     dev_particleArrayIndices, CandidateList(iSelf, oob),
                     oob[1], oob[2])
    ELSE ScanCoherent(iSelf, dev_gridCellStartIndices, dev_gridCellEndIndices,
                      CandidateList(iSelf, oob), oob[1], oob[2])

\* C20: in the scattered and the coherent rule evaluation the candidate
\* list of a particle never holds the same cell id twice, the scan leaves
\* out the subject, and every other particle lying in a candidate cell is
\* examined exactly once, no neighbour being examined twice
C20_ExaminedOnce ==
  AfterIdentify =>
    \A oob \in OobChoices : \A iSelf \in Slots(N) :
      LET used == CandidateList(iSelf, oob)
          scan == Examined(iSelf, oob)
      IN /\ \A k1, k2 \in 1 .. (Len(used) - 1) : used[k1] = used[k2] => k1 = k2
         /\ Occurrences(scan, iSelf) = 0
         /\ \A j \in Slots(N) :
              (j # iSelf /\ CellOf(Pos[j].v) \in Candidates(used)) =>
                 Occurrences(scan, j) = 1
         /\ \A k \in 1 .. Len(scan) : Occurrences(scan, scan[k]) = 1

(***************************************************************************)
(* The life of the buffers: the ticks in any mix of modes from the state   *)
(* initSimulation leaves, then endSimulation one cudaFree at a time        *)
(***************************************************************************)
\* the buffer initSimulation allocated for a pointer, named after it
AllocationOf(handle) ==
  CHOOSE buf \in Vec3Allocations : HandleOf(buf) = handle

\* the pointers endSimulation frees, dev_posCopy left out
endProgram_NoPosCopy ==
  <<"dev_vel1", "dev_vel2", "dev_pos", "dev_particleArrayIndices",
    "dev_particleGridIndices", "dev_gridCellStartIndices",
    "dev_gridCellEndIndices">>

\* the pointers endSimulation passes to cudaFree, in program order
endProgram ==
  <<"dev_vel1", "dev_vel2", "dev_pos", "dev_particleArrayIndices",
    "dev_particleGridIndices", "dev_gridCellStartIndices",
    "dev_gridCellEndIndices", "dev_posCopy">>

\* the allocation a pointer of endSimulation holds when it is freed
Pointee(ptr) ==
  IF ptr = "dev_pos" THEN AllocationOf(dev_pos)
  ELSE IF ptr = "dev_vel1" THEN AllocationOf(dev_vel1)
  ELSE IF ptr = "dev_vel2" THEN AllocationOf(dev_vel2)
  ELSE IF ptr = "dev_posCopy" THEN AllocationOf(dev_posCopy)
  ELSE ptr

\* endSimulation is called between two ticks
CallEnd ==
  /\ frame = NoFrame
  /\ pc = "idle"
  /\ pc' = "end"
  /\ frame' = [fn |-> "endSimulation", ip |-> 1, freed |-> <<>>]
  /\ UNCHANGED <<numObjects, mem, handles, indexArrays, tables, gridMinimum,
                 gridGlobals, dt, tick, tpc, acc, snap, rt>>

\* cudaFree(ptr): the allocation leaves the live ones; freeing one that is
\* not live is an error of the runtime
Free ==
  /\ frame.fn = "endSimulation"
  /\ frame.ip <= Len(endProgram)
  /\ LET ptr == endProgram[frame.ip]
         buf == Pointee(ptr)
         gone(name, old) == IF buf = name THEN <<>> ELSE old
     IN /\ rt' = IF buf \in rt.live
                   THEN [rt EXCEPT !.live = rt.live \ {buf}]
                   ELSE [rt EXCEPT !.err = "cudaErrorInvalidValue"]
        /\ frame' = [frame EXCEPT !.ip = frame.ip + 1,
                                  !.freed = Append(frame.freed, buf)]
        /\ mem' = IF buf \in Vec3Allocations
                    THEN [mem EXCEPT ![HandleOf(buf)] = <<>>]
                    ELSE mem
        /\ dev_particleArrayIndices' =
             gone("dev_particleArrayIndices", dev_particleArrayIndices)
        /\ dev_particleGridIndices' =
             gone("dev_particleGridIndices", dev_particleGridIndices)
        /\ dev_gridCellStartIndices' =
             gone("dev_gridCellStartIndices", dev_gridCellStartIndices)
        /\ dev_gridCellEndIndices' =
             gone("dev_gridCellEndIndices", dev_gridCellEndIndices)
  /\ UNCHANGED <<numObjects, handles, gridMinimum, gridGlobals, pc, dt, tick,
                 tpc, acc, snap>>

NextLife == Next \/ CallEnd \/ Free

SpecLife == Init /\ [][NextLife]_vars

\* endSimulation has returned
Ended == frame.fn = "endSimulation" /\ frame.ip > Len(endProgram)

\* C21: after initSimulation and any sequence of ticks in any mix of modes
\* the handles dev_pos, dev_posCopy, dev_vel1 and dev_vel2 are pairwise
\* distinct and are a rearrangement of the four buffers allocated for them,
\* and endSimulation frees every buffer allocated by initSimulation exactly
\* once: no free hits a buffer already freed and none is left allocated
C21_HandlesRearranged ==
  /\ dev_pos # dev_posCopy /\ dev_pos # dev_vel1 /\ dev_pos # dev_vel2
  /\ dev_posCopy # dev_vel1 /\ dev_posCopy # dev_vel2 /\ dev_vel1 # dev_vel2
  /\ {dev_pos, dev_posCopy, dev_vel1, dev_vel2} = {HandleOf(buf) : buf \in Vec3Allocations}
  /\ frame.fn = "endSimulation" =>
       /\ rt.err = "cudaSuccess"
       /\ \A k1, k2 \in 1 .. Len(frame.freed) :
            frame.freed[k1] = frame.freed[k2] => k1 = k2
       /\ rt.live = RtReady.live \ {frame.freed[k] : k \in 1 .. Len(frame.freed)}
  /\ Ended =>
       /\ rt.live = {}
       /\ {frame.freed[k] : k \in 1 .. Len(frame.freed)} = RtReady.live
       /\ Len(frame.freed) = Cardinality(RtReady.live)

\* endSimulation has returned after a naive, a scattered or a coherent tick
\* left both pairs of handles exchanged
C21_Witness ==
  /\ Ended
  /\ tick >= 2
  /\ dev_pos = HandleOf("dev_posCopy")
  /\ dev_vel1 = HandleOf("dev_vel2")

====
